---- MODULE Spec2Model ----
(***************************************************************************)
(* Verification model of OpenScope_CA_Analysis (python).                   *)
(*                                                                         *)
(* Every modelled function runs in one call frame:                         *)
(*   op   the function being executed                                      *)
(*   args its arguments, under the names of the source                     *)
(*   loc  its local variables, under the names of the source               *)
(*   pc   the position in its body                                         *)
(*   ret  what it produced: nothing yet, a returned value, or the          *)
(*        exception that left it                                           *)
(* Python indices are kept 0-based; At(s, k) reads position k.             *)
(***************************************************************************)
EXTENDS Integers, Sequences, FiniteSets, TLC

VARIABLES op, args, loc, pc, ret

vars == <<op, args, loc, pc, ret>>

(***************************************************************************)
(* Values and outcomes                                                     *)
(***************************************************************************)
Pending == [kind |-> "pending"]

Return(v) == [kind |-> "return", val |-> v]

Raise(e) == [kind |-> "raise", exc |-> e]

NoLoc == [none |-> TRUE]

At(s, k) == s[k + 1]

Abs(x) == IF x < 0 THEN -x ELSE x

Range(s) == {s[k] : k \in DOMAIN s}

RECURSIVE SetToSortedSeq(_)
SetToSortedSeq(S) ==
    IF S = {} THEN <<>>
    ELSE LET m == CHOOSE x \in S : \A y \in S : x <= y
         IN <<m>> \o SetToSortedSeq(S \ {m})

(***************************************************************************)
(* sess_pupil_util._diam_no_blink                                          *)
(***************************************************************************)
\* a sample of a float series: a number, or NaN
Num(v) == [nan |-> FALSE, v |-> v]

NaN == [nan |-> TRUE, v |-> 0]

Unbound == [t |-> "unbound"]

Bound(v) == [t |-> "int", v |-> v]

\* length of the diameter series
DiamLen == 26

\* longest blink run of an input series
MaxRunLen == 3

\* baseline diameter of the input series, in pixels
DiamBase == 40

\* deviation of a blink sample from the baseline, in pixels
DiamDev == 8

\* default threshold, thr=5
DefaultThr == 5

\* diff_thr = 10
diff_thr == 10

\* the shapes of a blink run: a plateau above the baseline, or a dip whose
\* samples also differ from each other by more than the threshold
RunShapes == {<<DiamDev, DiamDev, DiamDev, DiamDev>>,
              <<-DiamDev, -2 * DiamDev, -DiamDev, -2 * DiamDev>>}

BlinkRuns ==
    {r \in [start : 0..(DiamLen - 1), len : 1..MaxRunLen, shape : RunShapes] :
        r.start + r.len <= DiamLen}

RunsDisjoint(R) ==
    \A r1, r2 \in R :
        r1 # r2 => (r1.start + r1.len < r2.start \/ r2.start + r2.len < r1.start)

\* the input series hold no blink run, one, or two separate ones
RunSets ==
    {{}} \cup {{r} : r \in BlinkRuns}
         \cup {R \in {{r1, r2} : r1 \in BlinkRuns, r2 \in BlinkRuns} : RunsDisjoint(R)}

\* the input series: the baseline with a jitter of one pixel on odd frames,
\* and the samples of each blink run
MakeDiam(R, jitter) ==
    [k \in 1..DiamLen |->
        IF \E r \in R : r.start <= k - 1 /\ k - 1 < r.start + r.len
        THEN LET r == CHOOSE r \in R : r.start <= k - 1 /\ k - 1 < r.start + r.len
             IN DiamBase + r.shape[k - r.start]
        ELSE DiamBase + jitter * ((k - 1) % 2)]

\* np.append(0, np.diff(diam))
np_append_diff(first, x) ==
    [k \in 1..Len(x) |-> IF k = 1 THEN first ELSE x[k] - x[k - 1]]

\* np.where(np.abs(diam_diff) > thr)[0], ascending 0-based indices
np_where_abs_gt(x, thr) ==
    SetToSortedSeq({k - 1 : k \in {j \in DOMAIN x : Abs(x[j]) > thr}})

\* np.where(diam_thr_diff[i + 1:] > diff_thr)[0] + i + 1, as a set of
\* 0-based indices into diam_thr_diff
where_gap(diam_thr_diff, i) ==
    {j \in (i + 1)..(Len(diam_thr_diff) - 1) : At(diam_thr_diff, j) > diff_thr}

SetMin(S) == CHOOSE x \in S : \A y \in S : x <= y

\* nan_diam[left:right + 1] = np.nan
SetNaNSlice(nan_diam, left, right) ==
    [k \in DOMAIN nan_diam |->
        IF left <= k - 1 /\ k - 1 <= right THEN NaN ELSE nan_diam[k]]

DiamInit ==
    /\ op = "_diam_no_blink"
    /\ \E R \in RunSets, jitter \in {0, 1} :
           args = [diam |-> MakeDiam(R, jitter), thr |-> DefaultThr]
    /\ loc = NoLoc
    /\ pc = "start"
    /\ ret = Pending

\* lines 63-75: copy, find the flagged indices, return early if none
DiamStart ==
    /\ op = "_diam_no_blink" /\ pc = "start"
    /\ LET nan_diam  == [k \in DOMAIN args.diam |-> Num(args.diam[k])]
           diam_diff == np_append_diff(0, args.diam)
           diam_thr  == np_where_abs_gt(diam_diff, args.thr)
           diam_thr_diff == np_append_diff(1, diam_thr)
       IN IF Len(diam_thr) = 0
          THEN /\ pc' = "done"
               /\ ret' = Return(nan_diam)
               /\ loc' = [nan_diam |-> nan_diam]
          ELSE /\ pc' = "while"
               /\ ret' = ret
               /\ loc' = [nan_diam |-> nan_diam, diam_thr |-> diam_thr,
                          diam_thr_diff |-> diam_thr_diff, searching |-> TRUE,
                          i |-> 0, right_i |-> Unbound]
    /\ UNCHANGED <<op, args>>

\* lines 76-86: one pass of the while loop. right_i is assigned only when a
\* later block exists; line 85 reads it in both branches.
DiamLoop ==
    /\ op = "_diam_no_blink" /\ pc = "while" /\ loc.searching
    /\ LET left == At(loc.diam_thr, loc.i)
           w    == where_gap(loc.diam_thr_diff, loc.i)
           right_i == IF w # {} THEN Bound(SetMin(w) - 1) ELSE loc.right_i
           right == IF w # {} THEN At(loc.diam_thr, right_i.v)
                    ELSE At(loc.diam_thr, Len(loc.diam_thr) - 1)
           searching == (w # {})
       IN IF right_i = Unbound
          THEN /\ pc' = "done"
               /\ ret' = Raise("UnboundLocalError")
               /\ loc' = [loc EXCEPT !.searching = searching]
          ELSE /\ pc' = "while"
               /\ ret' = ret
               /\ loc' = [loc EXCEPT !.searching = searching,
                                     !.right_i = right_i,
                                     !.i = right_i.v + 1,
                                     !.nan_diam = SetNaNSlice(loc.nan_diam, left, right)]
    /\ UNCHANGED <<op, args>>

\* line 88
DiamReturn ==
    /\ op = "_diam_no_blink" /\ pc = "while" /\ ~loc.searching
    /\ pc' = "done"
    /\ ret' = Return(loc.nan_diam)
    /\ UNCHANGED <<op, args, loc>>

PupilNext == DiamStart \/ DiamLoop \/ DiamReturn

SpecPupil == DiamInit /\ [][PupilNext]_vars

\* the positions s of an isolated run of 3 samples: more than diff_thr stable
\* samples on each side, every run sample further than thr from both of the
\* run's neighbours, and no step above thr between stable samples
IsStable(diam, thr, lo, hi) ==
    \A k \in lo..(hi - 1) : Abs(At(diam, k + 1) - At(diam, k)) <= thr

IsolatedRun3(diam, thr, s) ==
    /\ s > diff_thr
    /\ Len(diam) - (s + 3) > diff_thr
    /\ IsStable(diam, thr, 0, s - 1)
    /\ IsStable(diam, thr, s + 3, Len(diam) - 1)
    /\ \A k \in s..(s + 2) :
           /\ Abs(At(diam, k) - At(diam, s - 1)) > thr
           /\ Abs(At(diam, k) - At(diam, s + 3)) > thr

\* C1: for a series with a single isolated run of 3 deviating samples,
\* _diam_no_blink returns normally, and the returned series is NaN at exactly
\* the 3 samples of the run and equal to the input everywhere else.
C1_IsolatedRunOnlyNaN ==
    (op = "_diam_no_blink" /\ pc = "done") =>
        \A s \in 0..(DiamLen - 1) :
            IsolatedRun3(args.diam, args.thr, s) =>
                /\ ret.kind = "return"
                /\ \A k \in 0..(Len(args.diam) - 1) :
                       At(ret.val, k) = IF s <= k /\ k <= s + 2 THEN NaN
                                        ELSE Num(At(args.diam, k))

(***************************************************************************)
(* Python values of mixed type: None, numbers, strings, lists, dicts       *)
(***************************************************************************)
None == [t |-> "none"]

PyNum(v) == [t |-> "num", n |-> v]

PyStr(v) == [t |-> "str", s |-> v]

PyBool(v) == [t |-> "bool", b |-> v]

PyList(v) == [t |-> "list", l |-> v]

PyDict(v) == [t |-> "dict", d |-> v]

\* all sequences over S of length lo..hi
SeqsOf(S, lo, hi) == UNION {[1..n -> S] : n \in lo..hi}

\* gen_util.accepted_values_error: always raises, naming the accepted values
accepted_values_error == Raise("InvalidInput")

\* gen_util.list_if_not on a tagged value: a list stays, anything else is wrapped
list_if_not(x) == IF x.t = "list" THEN x.l ELSE <<x>>

\* the error kinds the documentation groups under InvalidInput
IsInvalidInput(r) == r.kind = "raise" /\ r.exc \in {"InvalidInput", "ValueError"}

(***************************************************************************)
(* analysis/pup_analys.get_ran_s                                           *)
(* Durations are in tenths of a second: 3.5 s is 35.                       *)
(***************************************************************************)
\* vals = 3.5
default_ran_s == 35

\* longest list passed as ran_s
MaxRanList == 3

RanSNums == {20, default_ran_s}

AllRanKeys == {"pup_pre", "pup_post", "roi_pre", "roi_post", "run_pre", "run_post"}

\* keys, in the order lines 60-64 build them
RanSKeyList(datatype) ==
    <<"pup_pre", "pup_post">>
      \o (IF datatype \in {"both", "roi"} THEN <<"roi_pre", "roi_post">> ELSE <<>>)
      \o (IF datatype \in {"both", "run"} THEN <<"run_pre", "run_post">> ELSE <<>>)

\* 'pre' in key / 'post' in key, for the keys the function builds
HasPre(key) == key \in {"pup_pre", "roi_pre", "run_pre"}

HasPost(key) == key \in {"pup_post", "roi_post", "run_post"}

RanSInputs ==
    {None} \cup {PyNum(v) : v \in RanSNums}
           \cup {PyList(l) : l \in SeqsOf(RanSNums, 0, MaxRanList)}
           \cup {PyDict([k \in K |-> default_ran_s]) : K \in SUBSET AllRanKeys}

RanSInit ==
    /\ op = "get_ran_s"
    /\ \E ran_s \in RanSInputs, datatype \in {"both", "roi", "run", "pup"} :
           args = [ran_s |-> ran_s, datatype |-> datatype]
    /\ loc = NoLoc
    /\ pc = "start"
    /\ ret = Pending

\* lines 58-67: the keys of the datatype, or the accepted-values error
RanSKeys ==
    /\ op = "get_ran_s" /\ pc = "start"
    /\ IF args.datatype \notin {"both", "run", "roi"}
       THEN /\ pc' = "done"
            /\ ret' = accepted_values_error
            /\ loc' = [keys |-> RanSKeyList(args.datatype)]
       ELSE /\ pc' = "check"
            /\ ret' = ret
            /\ loc' = [keys |-> RanSKeyList(args.datatype)]
    /\ UNCHANGED <<op, args>>

\* lines 69-84: a dict is checked for its keys; anything else becomes vals.
\* For None, vals is the bare number 3.5, not a pair.
RanSVals ==
    /\ op = "get_ran_s" /\ pc = "check"
    /\ LET ran_s == args.ran_s
           missing == {k \in Range(loc.keys) : k \notin DOMAIN ran_s.d}
       IN CASE ran_s.t = "dict" ->
                 IF missing # {}
                 THEN /\ pc' = "done" /\ ret' = Raise("ValueError") /\ loc' = loc
                 ELSE /\ pc' = "return" /\ ret' = ret
                      /\ loc' = [keys |-> loc.keys, ran_s |-> ran_s.d]
            [] ran_s.t = "none" ->
                 /\ pc' = "for" /\ ret' = ret
                 /\ loc' = [keys |-> loc.keys, vals |-> PyNum(default_ran_s),
                            ran_s |-> <<>>, k |-> 0]
            [] ran_s.t = "list" ->
                 IF Len(ran_s.l) = 2
                 THEN /\ pc' = "for" /\ ret' = ret
                      /\ loc' = [keys |-> loc.keys, vals |-> PyList(ran_s.l),
                                 ran_s |-> <<>>, k |-> 0]
                 ELSE /\ pc' = "done" /\ ret' = Raise("ValueError") /\ loc' = loc
            [] OTHER ->
                 /\ pc' = "for" /\ ret' = ret
                 /\ loc' = [keys |-> loc.keys, vals |-> PyList(<<ran_s.n, ran_s.n>>),
                            ran_s |-> <<>>, k |-> 0]
    /\ UNCHANGED <<op, args>>

\* lines 85-89: one pass of the loop over keys; vals[0] and vals[1] subscript
\* vals, which a bare number does not support
RanSFill ==
    /\ op = "get_ran_s" /\ pc = "for" /\ loc.k < Len(loc.keys)
    /\ LET key == At(loc.keys, loc.k)
       IN IF loc.vals.t # "list"
          THEN /\ pc' = "done" /\ ret' = Raise("TypeError") /\ loc' = loc
          ELSE /\ pc' = "for" /\ ret' = ret
               /\ loc' = [loc EXCEPT
                      !.k = loc.k + 1,
                      !.ran_s = IF HasPre(key)
                                THEN [j \in DOMAIN loc.ran_s \cup {key} |->
                                        IF j = key THEN At(loc.vals.l, 0) ELSE loc.ran_s[j]]
                                ELSE IF HasPost(key)
                                THEN [j \in DOMAIN loc.ran_s \cup {key} |->
                                        IF j = key THEN At(loc.vals.l, 1) ELSE loc.ran_s[j]]
                                ELSE loc.ran_s]
    /\ UNCHANGED <<op, args>>

\* line 91, after the loop over keys has ended
RanSLoopEnd ==
    /\ op = "get_ran_s" /\ pc = "for" /\ loc.k = Len(loc.keys)
    /\ pc' = "return"
    /\ UNCHANGED <<op, args, loc, ret>>

\* line 91
RanSReturn ==
    /\ op = "get_ran_s" /\ pc = "return"
    /\ pc' = "done"
    /\ ret' = Return(loc.ran_s)
    /\ UNCHANGED <<op, args, loc>>

PupAnalysNext == RanSKeys \/ RanSVals \/ RanSFill \/ RanSLoopEnd \/ RanSReturn

SpecPupAnalys == RanSInit /\ [][PupAnalysNext]_vars

\* C2: get_ran_s(None, 'both') returns, without raising, the dict that maps
\* each of the six keys to the 3.5 s default.
C2_NoneGivesDefaults ==
    (op = "get_ran_s" /\ pc = "done" /\ args.ran_s = None /\ args.datatype = "both") =>
        ret = Return([k \in AllRanKeys |-> default_ran_s])

(***************************************************************************)
(* sess_util/sess_gen_util.depth_vals                                      *)
(***************************************************************************)
all_layers == <<"dend", "soma">>

all_lines == <<"L23", "L5">>

\* depth_dict, keyed '{line}_{layer}'
depth_dict ==
    [L23_dend |-> <<50, 75>>, L23_soma |-> <<175>>, L5_dend |-> <<20>>, L5_soma |-> <<375>>]

\* '{}_{}'.format(line, layer), for the lines and layers of the inputs
LineLayerKey(line, layer) ==
    CASE line = "L23" /\ layer = "dend" -> "L23_dend"
      [] line = "L23" /\ layer = "soma" -> "L23_soma"
      [] line = "L5" /\ layer = "dend" -> "L5_dend"
      [] line = "L5" /\ layer = "soma" -> "L5_soma"
      [] OTHER -> "other"

\* longest list of layers or lines passed to depth_vals
MaxDepthList == 2

LayerInputs ==
    {PyStr(x) : x \in {"any", "dend", "soma", "axon"}}
      \cup {PyList(l) : l \in SeqsOf({PyStr(x) : x \in {"dend", "soma", "axon"}}, 1, MaxDepthList)}

LineInputs ==
    {PyStr(x) : x \in {"any", "L23", "L5", "L4"}}
      \cup {PyList(l) : l \in SeqsOf({PyStr(x) : x \in {"L23", "L5", "L4"}}, 1, MaxDepthList)}

\* lines 60-69: the loops over layers and lines, from position (li, ni).
\* Line 65 tests the layer again, not the line, so an unknown line reaches the
\* depth_dict lookup of line 67.
RECURSIVE depth_loops(_, _, _, _, _)
depth_loops(layers, lines, li, ni, depths) ==
    IF li = Len(layers) THEN Return(PyList(depths))
    ELSE LET layer == At(layers, li).s
         IN IF layer \notin Range(all_layers) THEN accepted_values_error
            ELSE IF ni = Len(lines) THEN depth_loops(layers, lines, li + 1, 0, depths)
            ELSE LET line == At(lines, ni).s
                     key  == LineLayerKey(line, layer)
                 IN IF layer \notin Range(all_layers) THEN accepted_values_error
                    ELSE IF key \notin DOMAIN depth_dict THEN Raise("KeyError")
                    ELSE depth_loops(layers, lines, li, ni + 1,
                                     depths \o [k \in DOMAIN depth_dict[key] |->
                                                   PyNum(depth_dict[key][k])])

\* lines 39-69
depth_vals(layer, line) ==
    IF layer = PyStr("any") /\ line = PyStr("any")
    THEN Return(PyStr("any"))
    ELSE depth_loops(IF layer = PyStr("any")
                     THEN [k \in DOMAIN all_layers |-> PyStr(all_layers[k])]
                     ELSE list_if_not(layer),
                     IF line = PyStr("any")
                     THEN [k \in DOMAIN all_lines |-> PyStr(all_lines[k])]
                     ELSE list_if_not(line),
                     0, 0, <<>>)

DepthInit ==
    /\ op = "depth_vals"
    /\ \E layer \in LayerInputs, line \in LineInputs : args = [layer |-> layer, line |-> line]
    /\ loc = NoLoc
    /\ pc = "start"
    /\ ret = Pending

DepthCall ==
    /\ op = "depth_vals" /\ pc = "start"
    /\ pc' = "done"
    /\ ret' = depth_vals(args.layer, args.line)
    /\ UNCHANGED <<op, args, loc>>

DepthNext == DepthCall

SpecDepth == DepthInit /\ [][DepthNext]_vars

\* C10: depth_vals raises the InvalidInput-kind accepted-values error for
\* every layer outside {'dend', 'soma', 'any'} and for every line outside
\* {'L23', 'L5', 'any'}.
C10_UnknownLayerOrLineIsInvalidInput ==
    (op = "depth_vals" /\ pc = "done") =>
        ((\/ (args.layer.t = "str" /\ args.layer.s \notin {"dend", "soma", "any"})
          \/ (args.line.t = "str" /\ args.line.s \notin {"L23", "L5", "any"}))
            => IsInvalidInput(ret))

(***************************************************************************)
(* sess_util/sess_gen_util: pilot_gab_omit, pilot_bri_omit, all_omit       *)
(***************************************************************************)
\* x in list_if_not(v), for a number or string x
InListIfNot(x, v) == x \in Range(list_if_not(v))

\* the claimed table, mouse 1 for kappa {4} and mouse 3 for kappa {16}
pilot_gab_omit_swapped(gabk) ==
    IF ~InListIfNot(PyNum(16), gabk) THEN <<1>>
    ELSE IF ~InListIfNot(PyNum(4), gabk) THEN <<3>>
    ELSE <<>>

\* lines 649-656
pilot_gab_omit(gabk) ==
    IF ~InListIfNot(PyNum(4), gabk) THEN <<1>>
    ELSE IF ~InListIfNot(PyNum(16), gabk) THEN <<3>>
    ELSE <<>>

\* lines 675-685
pilot_bri_omit(bri_dir, bri_size) ==
    IF ~InListIfNot(PyStr("right"), bri_dir)
    THEN <<3>> \o (IF ~InListIfNot(PyNum(128), bri_size) THEN <<1>> ELSE <<>>)
    ELSE IF ~InListIfNot(PyStr("left"), bri_dir) /\ ~InListIfNot(PyNum(256), bri_size)
    THEN <<1>>
    ELSE <<>>

\* list(range(1, 9))
AllProdMice == [k \in 1..8 |-> k]

pilot_omit_sess == 721038464

prod_omit_sess == 828754259

\* all_omit with the production test applied whatever the stimtype
all_omit_any_stim(stimtype, runtype, bri_dir, bri_size, gabk) ==
    CASE runtype = "pilot" ->
           [omit_sess |-> <<pilot_omit_sess>>,
            omit_mice |-> CASE stimtype = "gabors" -> pilot_gab_omit(gabk)
                            [] stimtype = "bricks" -> pilot_bri_omit(bri_dir, bri_size)
                            [] OTHER -> <<>>]
      [] runtype = "prod" ->
           [omit_sess |-> <<prod_omit_sess>>,
            omit_mice |-> IF ~InListIfNot(PyNum(16), gabk) \/ ~InListIfNot(PyNum(128), bri_size)
                          THEN AllProdMice ELSE <<>>]
      [] OTHER -> [omit_sess |-> <<>>, omit_mice |-> <<>>]

\* lines 712-735
all_omit(stimtype, runtype, bri_dir, bri_size, gabk) ==
    CASE runtype = "pilot" ->
           [omit_sess |-> <<pilot_omit_sess>>,
            omit_mice |-> CASE stimtype = "gabors" -> pilot_gab_omit(gabk)
                            [] stimtype = "bricks" -> pilot_bri_omit(bri_dir, bri_size)
                            [] OTHER -> <<>>]
      [] runtype = "prod" ->
           [omit_sess |-> <<prod_omit_sess>>,
            omit_mice |-> CASE stimtype = "gabors" ->
                                 IF ~InListIfNot(PyNum(16), gabk) THEN AllProdMice ELSE <<>>
                            [] stimtype = "bricks" ->
                                 IF ~InListIfNot(PyNum(128), bri_size) THEN AllProdMice ELSE <<>>
                            [] OTHER -> <<>>]
      [] OTHER -> [omit_sess |-> <<>>, omit_mice |-> <<>>]

\* a value alone, or lists of the values, up to the whole set in any order
ScalarOrList(S) ==
    {PyNum(x) : x \in S}
      \cup {PyList(l) : l \in {q \in SeqsOf({PyNum(x) : x \in S}, 1, Cardinality(S)) :
                                  \A i, j \in DOMAIN q : i # j => q[i] # q[j]}}

GabkInputs == ScalarOrList({4, 16})

BriSizeInputs == ScalarOrList({128, 256})

BriDirInputs ==
    {PyStr(x) : x \in {"right", "left", "both"}}
      \cup {PyList(<<PyStr("right"), PyStr("left")>>)}

OmitInit ==
    /\ \/ /\ op = "pilot_gab_omit"
          /\ \E gabk \in GabkInputs : args = [gabk |-> gabk]
       \/ /\ op = "all_omit"
          /\ \E stimtype \in {"gabors", "bricks", "both"}, runtype \in {"pilot", "prod"},
                bri_dir \in BriDirInputs, bri_size \in BriSizeInputs, gabk \in GabkInputs :
                args = [stimtype |-> stimtype, runtype |-> runtype, bri_dir |-> bri_dir,
                        bri_size |-> bri_size, gabk |-> gabk]
    /\ loc = NoLoc
    /\ pc = "start"
    /\ ret = Pending

PilotGabOmitCall ==
    /\ op = "pilot_gab_omit" /\ pc = "start"
    /\ pc' = "done"
    /\ ret' = Return(pilot_gab_omit(args.gabk))
    /\ UNCHANGED <<op, args, loc>>

AllOmitCall ==
    /\ op = "all_omit" /\ pc = "start"
    /\ pc' = "done"
    /\ ret' = Return(all_omit(args.stimtype, args.runtype, args.bri_dir,
                              args.bri_size, args.gabk))
    /\ UNCHANGED <<op, args, loc>>

OmitNext == PilotGabOmitCall \/ AllOmitCall

SpecOmit == OmitInit /\ [][OmitNext]_vars

\* the set of kappa values a call requests
RequestedSet(v) == {x.n : x \in Range(list_if_not(v))}

\* the omitted mice a finished call returned
OmittedMice ==
    IF op = "pilot_gab_omit" THEN Range(ret.val) ELSE Range(ret.val.omit_mice)

PilotGaborCall ==
    /\ pc = "done"
    /\ \/ op = "pilot_gab_omit"
       \/ op = "all_omit" /\ args.runtype = "pilot" /\ args.stimtype = "gabors"

\* C3 as stated: pilot, gabors: the omitted mice are exactly {1} for kappa
\* {4}, exactly {3} for kappa {16}, and none for kappa {4, 16}.
C3_AsStated ==
    PilotGaborCall =>
        /\ RequestedSet(args.gabk) = {4} => OmittedMice = {1}
        /\ RequestedSet(args.gabk) = {16} => OmittedMice = {3}
        /\ RequestedSet(args.gabk) = {4, 16} => OmittedMice = {}

\* C3 (amended): pilot, gabors: the omitted mice are exactly {3} for kappa
\* {4} (mouse 3 only got kappa 16), exactly {1} for kappa {16} (mouse 1 only
\* got kappa 4), and none for kappa {4, 16}.
C3_PilotGabOmitTable ==
    PilotGaborCall =>
        /\ RequestedSet(args.gabk) = {4} => OmittedMice = {3}
        /\ RequestedSet(args.gabk) = {16} => OmittedMice = {1}
        /\ RequestedSet(args.gabk) = {4, 16} => OmittedMice = {}

C3_Witness ==
    /\ op = "all_omit" /\ pc = "done"
    /\ args.runtype = "pilot" /\ args.stimtype = "gabors"
    /\ RequestedSet(args.gabk) = {4}
    /\ ret.val.omit_mice = <<3>>

\* C4 as stated: prod: all mice 1..8 are omitted whenever 16 is not among the
\* requested gabk or 128 is not among the requested bri_size, and none
\* otherwise, for every stimtype.
C4_AsStated ==
    (op = "all_omit" /\ pc = "done" /\ args.runtype = "prod") =>
        ret.val.omit_mice =
            IF 16 \notin RequestedSet(args.gabk) \/ 128 \notin RequestedSet(args.bri_size)
            THEN AllProdMice ELSE <<>>

\* C4 (amended): prod: all mice 1..8 are omitted when stimtype is 'gabors'
\* and 16 is not among the requested gabk, or stimtype is 'bricks' and 128 is
\* not among the requested bri_size; no mouse is omitted otherwise.  The
\* parameter of the stimulus that is not analysed is not looked at.
C4_ProdOmitByStimtype ==
    (op = "all_omit" /\ pc = "done" /\ args.runtype = "prod") =>
        /\ ret.val.omit_sess = <<prod_omit_sess>>
        /\ ret.val.omit_mice =
              IF \/ args.stimtype = "gabors" /\ 16 \notin RequestedSet(args.gabk)
                 \/ args.stimtype = "bricks" /\ 128 \notin RequestedSet(args.bri_size)
              THEN AllProdMice ELSE <<>>

C4_Witness ==
    /\ op = "all_omit" /\ pc = "done" /\ args.runtype = "prod"
    /\ args.stimtype = "gabors"
    /\ 16 \in RequestedSet(args.gabk)
    /\ 128 \notin RequestedSet(args.bri_size)
    /\ ret.val.omit_mice = <<>>

(***************************************************************************)
(* sess_util/sess_gen_util: get_df_vals, get_sess_vals, sess_per_mouse,    *)
(* sess_comb_per_mouse                                                     *)
(***************************************************************************)
\* the mice of the dataframe
MouseNs == {1, 2}

\* highest session number of a mouse
MaxSess == 3

\* one row of mouse_df: session n of mouse m, passed or failed
DfRow(m, n, pf) ==
    [mouse_n |-> PyNum(m), sessid |-> PyNum(10 * m + n), sess_n |-> PyNum(n),
     runtype |-> PyStr("prod"), depth |-> PyNum(175), pass_fail |-> PyStr(pf),
     all_files |-> PyNum(1), any_files |-> PyNum(1), nrois |-> 5]

\* the dataframes: each mouse has sessions 1..n, at most one of them failed
MouseDfs ==
    {UNION {{DfRow(m, n, IF n = h[m].fail THEN "F" ELSE "P") : n \in 1..h[m].n} :
                m \in MouseNs} :
        h \in [MouseNs -> {x \in [n : 0..MaxSess, fail : 0..MaxSess] : x.fail <= x.n}]}

RECURSIVE SetToSeq(_)
SetToSeq(S) ==
    IF S = {} THEN <<>>
    ELSE LET m == CHOOSE x \in S : TRUE IN <<m>> \o SetToSeq(S \ {m})

\* gen_util.get_df_label_vals: 'any' and 'all' stand for every value of the
\* column, anything else is made a list
get_df_label_vals(df, label, vals) ==
    IF vals \in {None, PyStr("any"), PyStr("all")}
    THEN SetToSeq({r[label] : r \in df})
    ELSE list_if_not(vals)

\* gen_util.remove_if
remove_if(vals, rem) == SelectSeq(vals, LAMBDA x : x \notin Range(rem))

\* lines 114-130: the rows that fit every criterion
get_df_vals(mouse_df, mouse_n, sessid, sess_n, runtype, depth, pass_fail, all_files, any_files, min_rois) ==
    {r \in mouse_df :
        /\ r.mouse_n \in Range(mouse_n)
        /\ r.sessid \in Range(sessid)
        /\ r.sess_n \in Range(sess_n)
        /\ r.runtype \in Range(runtype)
        /\ r.depth \in Range(depth)
        /\ r.pass_fail \in Range(pass_fail)
        /\ r.all_files \in Range(all_files)
        /\ r.any_files \in Range(any_files)
        /\ r.nrois >= min_rois}

\* lines 194-225; f holds the criteria the callers pass through unchanged.
\* The values come back through list(set(...)): for the small numbers of
\* mouse_df that is ascending order.
get_sess_vals(mouse_df, returnlab, mouse_n, sess_n, f) ==
    LET depth == depth_vals(f.layer, f.line)
    IN IF depth.kind = "raise" THEN depth
       ELSE LET rows ==
                  get_df_vals(mouse_df,
                      remove_if(get_df_label_vals(mouse_df, "mouse_n", mouse_n), f.omit_mice),
                      remove_if(get_df_label_vals(mouse_df, "sessid", PyStr("any")), f.omit_sess),
                      get_df_label_vals(mouse_df, "sess_n", sess_n),
                      get_df_label_vals(mouse_df, "runtype", f.runtype),
                      get_df_label_vals(mouse_df, "depth", depth.val),
                      get_df_label_vals(mouse_df, "pass_fail", f.pass_fail),
                      get_df_label_vals(mouse_df, "all_files", f.all_files),
                      get_df_label_vals(mouse_df, "any_files", f.any_files),
                      f.min_rois)
            IN Return(SetToSortedSeq({r[returnlab].n : r \in rows}))

\* the default criteria of sess_per_mouse and sess_comb_per_mouse
DefaultCriteria(runtype) ==
    [runtype |-> PyStr(runtype), layer |-> PyStr("any"), line |-> PyStr("any"),
     pass_fail |-> PyStr("P"), all_files |-> PyNum(1), any_files |-> PyNum(1),
     min_rois |-> 1, omit_sess |-> <<>>, omit_mice |-> <<>>]

\* np.argmin(np.absolute([x - sess_n for x in sess_ns])): the first position
\* of the smallest distance
argmin_dist(sess_ns, sess_n) ==
    SetMin({k \in 0..(Len(sess_ns) - 1) :
               \A j \in 0..(Len(sess_ns) - 1) :
                   Abs(At(sess_ns, k) - sess_n) <= Abs(At(sess_ns, j) - sess_n)})

SpmInit ==
    /\ op = "sess_per_mouse"
    /\ \E mouse_df \in MouseDfs, closest \in BOOLEAN, runtype \in {"prod", "any"},
          sess_n \in {PyNum(n) : n \in 1..MaxSess} \cup {PyStr("last")} :
           args = [mouse_df |-> mouse_df, mouse_n |-> PyStr("any"), sess_n |-> sess_n,
                   closest |-> closest, f |-> DefaultCriteria(runtype)]
    /\ loc = NoLoc
    /\ pc = "start"
    /\ ret = Pending

\* lines 279-293
SpmStart ==
    /\ op = "sess_per_mouse" /\ pc = "start"
    /\ LET sess_n == IF args.closest \/ args.sess_n = PyStr("last")
                     THEN PyList(get_df_label_vals(args.mouse_df, "sess_n", PyStr("any")))
                     ELSE args.sess_n
           mouse_ns == get_sess_vals(args.mouse_df, "mouse_n", args.mouse_n, sess_n, args.f)
       IN IF args.f.runtype = PyStr("any")
          THEN /\ pc' = "done" /\ ret' = Raise("ValueError")
               /\ loc' = [sess_n |-> sess_n]
          ELSE IF mouse_ns.kind = "raise"
          THEN /\ pc' = "done" /\ ret' = mouse_ns
               /\ loc' = [sess_n |-> sess_n]
          ELSE /\ pc' = "for" /\ ret' = ret
               /\ loc' = [sess_n |-> sess_n, mouse_ns |-> mouse_ns.val,
                          k |-> 0, sessids |-> <<>>]
    /\ UNCHANGED <<op, args>>

\* lines 294-311: one pass of the loop over the mice. sess_n is the
\* function's own variable: what one pass assigns to it, the next pass reads.
SpmMouse ==
    /\ op = "sess_per_mouse" /\ pc = "for" /\ loc.k < Len(loc.mouse_ns)
    /\ LET i == PyNum(At(loc.mouse_ns, loc.k))
           sess_ns == get_sess_vals(args.mouse_df, "sess_n", i, loc.sess_n, args.f).val
       IN IF Len(sess_ns) = 0
          THEN /\ pc' = "for" /\ ret' = ret
               /\ loc' = [loc EXCEPT !.k = loc.k + 1]
          ELSE IF loc.sess_n # PyStr("last") /\ args.closest /\ loc.sess_n.t # "num"
          THEN /\ pc' = "done" /\ ret' = Raise("TypeError") /\ loc' = loc
          ELSE LET sess_n == IF loc.sess_n = PyStr("last") \/ ~args.closest
                             THEN PyNum(At(sess_ns, Len(sess_ns) - 1))
                             ELSE PyNum(At(sess_ns, argmin_dist(sess_ns, loc.sess_n.n)))
                   sessid == At(get_sess_vals(args.mouse_df, "sessid", i, sess_n, args.f).val, 0)
               IN /\ pc' = "for" /\ ret' = ret
                  /\ loc' = [loc EXCEPT !.k = loc.k + 1,
                                        !.sess_n = sess_n,
                                        !.sessids = Append(loc.sessids, sessid)]
    /\ UNCHANGED <<op, args>>

\* lines 313-316
SpmReturn ==
    /\ op = "sess_per_mouse" /\ pc = "for" /\ loc.k = Len(loc.mouse_ns)
    /\ pc' = "done"
    /\ ret' = IF Len(loc.sessids) = 0 THEN Raise("ValueError") ELSE Return(loc.sessids)
    /\ UNCHANGED <<op, args, loc>>

\* A session-pair string is held as its parts between the 'v' separators:
\* '1v2' is <<Digits(1), Digits(2)>>, 'firstvlast' is <<Word("first"),
\* Word("last")>>, and a string without 'v' has a single part.
Digits(n) == [t |-> "digits", n |-> n]

Word(w) == [t |-> "word", s |-> w]

SessParts == {Digits(n) : n \in 1..MaxSess} \cup {Word("first"), Word("last")}

SessPairSpecs == SeqsOf(SessParts, 1, 2)

\* int(n) accepting the literals as the first and the last session number
int_or_literal(part) ==
    CASE part.t = "digits" -> Return(part.n)
      [] part = Word("first") -> Return(1)
      [] OTHER -> Return(MaxSess)

\* line 378: int(n) of one part of the split string
int_of_part(part) ==
    IF part.t = "digits" THEN Return(part.n) ELSE Raise("ValueError")

\* lines 370-376 with the closest option refused
check_pair_args_refusing(closest, sess_n) ==
    IF closest THEN Raise("NotImplementedError")
    ELSE IF Len(sess_n) < 2 THEN Raise("ValueError")
    ELSE Return(FALSE)

\* lines 370-376: closest is reset to False with a printed notice, and the
\* string must hold a 'v'. Returns the value closest is left with.
check_pair_args(closest, sess_n) ==
    IF Len(sess_n) < 2 THEN Raise("ValueError")
    ELSE Return(IF closest THEN FALSE ELSE closest)

ScmInit ==
    /\ op = "sess_comb_per_mouse"
    /\ \E mouse_df \in MouseDfs, closest \in BOOLEAN, runtype \in {"prod", "any"},
          sess_n \in SessPairSpecs :
           args = [mouse_df |-> mouse_df, mouse_n |-> PyStr("any"), sess_n |-> sess_n,
                   closest |-> closest, f |-> DefaultCriteria(runtype)]
    /\ loc = NoLoc
    /\ pc = "start"
    /\ ret = Pending

\* lines 370-393
ScmStart ==
    /\ op = "sess_comb_per_mouse" /\ pc = "start"
    /\ LET checked == check_pair_args(args.closest, args.sess_n)
           ints == [k \in DOMAIN args.sess_n |-> int_of_part(args.sess_n[k])]
           sess_n == [k \in DOMAIN ints |-> ints[k].val]
           mouse_ns == [k \in DOMAIN sess_n |->
                           get_sess_vals(args.mouse_df, "mouse_n", args.mouse_n,
                                         PyNum(sess_n[k]), args.f)]
       IN IF checked.kind = "raise"
          THEN /\ pc' = "done" /\ ret' = checked /\ loc' = loc
          ELSE IF \E k \in DOMAIN ints : ints[k].kind = "raise"
          THEN /\ pc' = "done" /\ ret' = Raise("ValueError")
               /\ loc' = [closest |-> checked.val]
          ELSE IF args.f.runtype = PyStr("any")
          THEN /\ pc' = "done" /\ ret' = Raise("ValueError")
               /\ loc' = [closest |-> checked.val, sess_n |-> sess_n]
          ELSE IF \E k \in DOMAIN mouse_ns : mouse_ns[k].kind = "raise"
          THEN /\ pc' = "done"
               /\ ret' = mouse_ns[SetMin({k \in DOMAIN mouse_ns : mouse_ns[k].kind = "raise"})]
               /\ loc' = [closest |-> checked.val, sess_n |-> sess_n]
          ELSE /\ pc' = "for" /\ ret' = ret
               /\ loc' = [closest |-> checked.val, sess_n |-> sess_n,
                          mouse_ns |-> SetToSortedSeq(Range(mouse_ns[1].val)
                                                         \cap Range(mouse_ns[2].val)),
                          k |-> 0, sessids |-> <<>>]
    /\ UNCHANGED <<op, args>>

\* lines 397-404: one pass of the loop over the mice that have both sessions
ScmMouse ==
    /\ op = "sess_comb_per_mouse" /\ pc = "for" /\ loc.k < Len(loc.mouse_ns)
    /\ LET i == PyNum(At(loc.mouse_ns, loc.k))
           mouse_sessids ==
               [k \in DOMAIN loc.sess_n |->
                   At(get_sess_vals(args.mouse_df, "sessid", i,
                                    PyNum(loc.sess_n[k]), args.f).val, 0)]
       IN loc' = [loc EXCEPT !.k = loc.k + 1,
                             !.sessids = Append(loc.sessids, mouse_sessids)]
    /\ UNCHANGED <<op, args, pc, ret>>

\* lines 406-409
ScmReturn ==
    /\ op = "sess_comb_per_mouse" /\ pc = "for" /\ loc.k = Len(loc.mouse_ns)
    /\ pc' = "done"
    /\ ret' = IF Len(loc.sessids) = 0 THEN Raise("ValueError") ELSE Return(loc.sessids)
    /\ UNCHANGED <<op, args, loc>>

SessPickNext ==
    SpmStart \/ SpmMouse \/ SpmReturn \/ ScmStart \/ ScmMouse \/ ScmReturn

SpecSessPick == (SpmInit \/ ScmInit) /\ [][SessPickNext]_vars

\* the session numbers of mouse m that meet the default criteria (passed)
QualSess(df, m) ==
    {r.sess_n.n : r \in {x \in df : x.mouse_n.n = m /\ x.pass_fail.s = "P"}}

SessIdOf(df, m, n) ==
    (CHOOSE r \in df : r.mouse_n.n = m /\ r.sess_n.n = n).sessid.n

SetMax(S) == CHOOSE x \in S : \A y \in S : y <= x

SpmFinished ==
    op = "sess_per_mouse" /\ pc = "done" /\ args.f.runtype = PyStr("prod")

\* C6: sess_per_mouse with closest=True and an integer sess_n returns, for
\* every mouse with a qualifying session, the ID of the qualifying session
\* whose number is closest to the requested sess_n.
C6_ClosestSessionPerMouse ==
    (SpmFinished /\ args.closest /\ args.sess_n.t = "num"
       /\ \E m \in MouseNs : QualSess(args.mouse_df, m) # {}) =>
        /\ ret.kind = "return"
        /\ \A m \in MouseNs :
               QualSess(args.mouse_df, m) # {} =>
                   \E n \in QualSess(args.mouse_df, m) :
                       /\ \A j \in QualSess(args.mouse_df, m) :
                              Abs(n - args.sess_n.n) <= Abs(j - args.sess_n.n)
                       /\ SessIdOf(args.mouse_df, m, n) \in Range(ret.val)

\* C7: sess_per_mouse with sess_n='last' returns, for every mouse with a
\* qualifying session, that mouse's own highest-numbered qualifying session,
\* whatever was chosen for the mice before it.
C7_LastSessionPerMouse ==
    (SpmFinished /\ ~args.closest /\ args.sess_n = PyStr("last")
       /\ \E m \in MouseNs : QualSess(args.mouse_df, m) # {}) =>
        /\ ret.kind = "return"
        /\ ret.val = [k \in 1..Cardinality({m \in MouseNs : QualSess(args.mouse_df, m) # {}}) |->
                        LET m == SetToSortedSeq({x \in MouseNs : QualSess(args.mouse_df, x) # {}})[k]
                        IN SessIdOf(args.mouse_df, m, SetMax(QualSess(args.mouse_df, m)))]

ScmFinished == op = "sess_comb_per_mouse" /\ pc = "done"

\* the session a part of the pair string asks of mouse m: its number, or the
\* mouse's first or last qualifying session
ResolvePart(df, m, part) ==
    CASE part.t = "digits" -> part.n
      [] part = Word("first") -> SetMin(QualSess(df, m))
      [] OTHER -> SetMax(QualSess(df, m))

\* the mice that have both sessions of the pair
MiceWithBoth(df, sess_n) ==
    {m \in MouseNs :
        /\ QualSess(df, m) # {}
        /\ \A k \in DOMAIN sess_n : ResolvePart(df, m, sess_n[k]) \in QualSess(df, m)}

\* one pair of session IDs for each of them, by ascending mouse number
PairsFor(df, sess_n) ==
    LET mice == SetToSortedSeq(MiceWithBoth(df, sess_n))
    IN [j \in DOMAIN mice |->
           [k \in DOMAIN sess_n |-> SessIdOf(df, mice[j], ResolvePart(df, mice[j], sess_n[k]))]]

AllDigits(sess_n) == \A k \in DOMAIN sess_n : sess_n[k].t = "digits"

\* C8 as stated: sess_comb_per_mouse rejects the closest option: a call with
\* closest=True fails rather than returning session-ID pairs.
C8_AsStated ==
    (ScmFinished /\ args.closest) => ret.kind = "raise"

\* C8 (amended): sess_comb_per_mouse does not reject the closest option: a
\* call with closest=True resets it to False and is served as the same call
\* with closest=False: it returns the exact-match session-ID pairs whenever
\* the pair string is well formed, the runtype is given and some mouse has
\* both sessions, and fails with ValueError otherwise.
C8_ClosestResetNotRejected ==
    (ScmFinished /\ args.closest) =>
        /\ ret = IF /\ Len(args.sess_n) = 2 /\ AllDigits(args.sess_n)
                    /\ args.f.runtype # PyStr("any")
                    /\ MiceWithBoth(args.mouse_df, args.sess_n) # {}
                 THEN Return(PairsFor(args.mouse_df, args.sess_n))
                 ELSE Raise("ValueError")
        /\ "closest" \in DOMAIN loc => loc.closest = FALSE

C8_Witness ==
    /\ ScmFinished /\ args.closest
    /\ ret.kind = "return"
    /\ Len(ret.val) = Cardinality(MouseNs)

\* C9 as stated: sess_comb_per_mouse accepts '{n1}v{n2}' where n1 or n2 is
\* an integer or the literal 'first' or 'last', and returns one session-ID
\* pair for each mouse that has both requested sessions.
C9_AsStated ==
    (ScmFinished /\ Len(args.sess_n) = 2 /\ args.f.runtype = PyStr("prod")
       /\ MiceWithBoth(args.mouse_df, args.sess_n) # {}) =>
        ret = Return(PairsFor(args.mouse_df, args.sess_n))

\* C9 (amended): sess_comb_per_mouse accepts '{n1}v{n2}' only with integer
\* n1 and n2, and then returns one session-ID pair for each mouse that has
\* both requested sessions; with the literal 'first' or 'last' for n1 or n2
\* the call fails with ValueError (int() of the literal).
C9_IntegerPairsOnly ==
    (ScmFinished /\ Len(args.sess_n) = 2 /\ args.f.runtype = PyStr("prod")) =>
        IF AllDigits(args.sess_n)
        THEN IF MiceWithBoth(args.mouse_df, args.sess_n) # {}
             THEN ret = Return(PairsFor(args.mouse_df, args.sess_n))
             ELSE ret = Raise("ValueError")
        ELSE ret = Raise("ValueError")

C9_Witness ==
    /\ ScmFinished /\ Len(args.sess_n) = 2 /\ AllDigits(args.sess_n)
    /\ args.sess_n[1] # args.sess_n[2]
    /\ ret.kind = "return"
    /\ Len(ret.val) = Cardinality(MouseNs)

(***************************************************************************)
(* sess_util/sess_ntuple_util: the init_* constructors and                 *)
(* get_modif_ntuple                                                        *)
(***************************************************************************)
\* a number that is not an integer, p/q
PyFrac(p, q) == [t |-> "num", p |-> p, q |-> q]

\* a string held by its characters, for the strings the code takes apart
PyChars(c) == [t |-> "str", c |-> c]

\* a namedtuple: its type name and its fields
Bundle(name, fields) == [name |-> name, fields |-> fields]

DigitChars == {"0", "1", "2", "3", "4", "5", "6", "7", "8", "9"}

DigitVal(c) ==
    CASE c = "0" -> 0 [] c = "1" -> 1 [] c = "2" -> 2 [] c = "3" -> 3 [] c = "4" -> 4
      [] c = "5" -> 5 [] c = "6" -> 6 [] c = "7" -> 7 [] c = "8" -> 8 [] OTHER -> 9

\* '{}'.format(n) for one decimal digit
NumStr(n) ==
    CASE n = 0 -> "0" [] n = 1 -> "1" [] n = 2 -> "2" [] n = 3 -> "3" [] n = 4 -> "4"
      [] n = 5 -> "5" [] n = 6 -> "6" [] n = 7 -> "7" [] n = 8 -> "8" [] OTHER -> "9"

\* int(s) for a string of characters: its decimal value, or ValueError
RECURSIVE chars_value(_)
chars_value(cs) ==
    IF Len(cs) = 0 THEN 0
    ELSE 10 * chars_value(SubSeq(cs, 1, Len(cs) - 1)) + DigitVal(cs[Len(cs)])

int_of_chars(cs) ==
    IF Len(cs) > 0 /\ \A k \in DOMAIN cs : cs[k] \in DigitChars
    THEN Return(PyNum(chars_value(cs)))
    ELSE Raise("ValueError")

\* s.split(sep) on the characters
RECURSIVE split_chars(_, _)
split_chars(cs, sep) ==
    IF \A k \in DOMAIN cs : cs[k] # sep THEN <<cs>>
    ELSE LET j == SetMin({k \in DOMAIN cs : cs[k] = sep})
         IN <<SubSeq(cs, 1, j - 1)>> \o split_chars(SubSeq(cs, j + 1, Len(cs)), sep)

\* the constructors that store their arguments as given
init_analyspar(d) == Return(Bundle("AnalysPar", d))

init_sesspar(d) == Return(Bundle("SessPar", d))

init_stimpar(d) == Return(Bundle("StimPar", d))

init_autocorrpar(d) == Return(Bundle("AutocorrPar", d))

init_permpar(d) == Return(Bundle("PermPar", d))

init_roigrppar(d) == Return(Bundle("RoiGrpPar", d))

init_logregpar(d) == Return(Bundle("LogRegPar", d))

init_glmpar(d) == Return(Bundle("GLMPar", d))

init_latpar(d) == Return(Bundle("LatPar", d))

init_basepar(d) == Return(Bundle("BasePar", d))

\* list(range(n_quints))[q]: negative q counts from the end
range_at(n_quints, q) == IF q < 0 THEN n_quints + q ELSE q

\* lines 218-242
init_quintpar(d) ==
    LET n == d.n_quints.n
        qu_idx == IF d.qu_idx = PyStr("all")
                  THEN [k \in 1..n |-> PyNum(k - 1)]
                  ELSE list_if_not(d.qu_idx)
        out_of_range == \E k \in DOMAIN qu_idx : qu_idx[k].n >= n \/ qu_idx[k].n < -n
        qu_lab == IF d.qu_lab = None
                  THEN [k \in DOMAIN qu_idx |->
                           PyStr("q" \o NumStr(range_at(n, qu_idx[k].n) + 1))]
                  ELSE list_if_not(d.qu_lab)
        qu_lab_pr == IF d.qu_lab_pr = None
                     THEN [k \in DOMAIN qu_idx |->
                              PyStr("qu " \o NumStr(range_at(n, qu_idx[k].n) + 1)
                                          \o "/" \o NumStr(n))]
                     ELSE list_if_not(d.qu_lab_pr)
    IN IF (d.qu_lab = None \/ d.qu_lab_pr = None) /\ out_of_range
       THEN Raise("IndexError")
       ELSE IF Len(qu_idx) # Len(qu_lab) \/ Len(qu_idx) # Len(qu_lab_pr)
       THEN Raise("ValueError")
       ELSE Return(Bundle("QuintPar",
                [n_quints |-> d.n_quints, qu_idx |-> PyList(qu_idx),
                 qu_lab |-> PyList(qu_lab), qu_lab_pr |-> PyList(qu_lab_pr)]))

\* lines 309-314: gabfr as a list of ints, as the ints of 'x_y', or as an int
tcurv_gabfr(gabfr) ==
    CASE gabfr.t = "list" -> Return(gabfr)
      [] gabfr.t = "str" ->
           IF "_" \in Range(gabfr.c)
           THEN LET parts == split_chars(gabfr.c, "_")
                    ints  == [k \in DOMAIN parts |-> int_of_chars(parts[k])]
                IN IF \E k \in DOMAIN ints : ints[k].kind = "raise"
                   THEN Raise("ValueError")
                   ELSE Return(PyList([k \in DOMAIN ints |-> ints[k].val]))
           ELSE int_of_chars(gabfr.c)
      [] gabfr.t = "none" -> Raise("TypeError")
      [] OTHER -> Return(gabfr)

\* lines 308-320
init_tcurvpar(d) ==
    LET gabfr == tcurv_gabfr(d.gabfr)
    IN IF gabfr.kind = "raise" THEN gabfr
       ELSE Return(Bundle("TCurvPar", [d EXCEPT !.gabfr = gabfr.val]))

\* the bundles the constructors build from their defaults (sess_n and grps
\* have none: a session number and one group are given)
analyspar_default ==
    [fluor |-> PyStr("dff"), remnans |-> PyBool(TRUE), stats |-> PyStr("mean"),
     error |-> PyStr("sem"), scale |-> PyBool(FALSE), dend |-> PyStr("extr")]

sesspar_default ==
    [sess_n |-> PyNum(1), closest |-> PyBool(FALSE), layer |-> PyStr("soma"),
     line |-> PyStr("any"), min_rois |-> PyNum(1), pass_fail |-> PyStr("P"),
     incl |-> PyStr("yes"), runtype |-> PyStr("prod"), mouse_n |-> PyStr("any")]

stimpar_default ==
    [stimtype |-> PyStr("both"),
     bri_dir |-> PyList(<<PyStr("right"), PyStr("left")>>),
     bri_size |-> PyNum(128), gabfr |-> PyNum(0), gabk |-> PyNum(16),
     gab_ori |-> PyList(<<PyNum(0), PyNum(45), PyNum(90), PyNum(135)>>),
     pre |-> PyNum(0), post |-> PyFrac(15, 10)]

autocorrpar_default == [lag_s |-> PyNum(4), byitem |-> PyBool(TRUE)]

permpar_default ==
    [n_perms |-> PyNum(10000), p_val |-> PyFrac(5, 100), tails |-> PyNum(2),
     multcomp |-> PyBool(TRUE)]

quintpar_default(n) ==
    [n_quints |-> PyNum(n), qu_idx |-> PyStr("all"), qu_lab |-> None,
     qu_lab_pr |-> None]

roigrppar_default ==
    [grps |-> PyList(<<PyStr("all")>>), add_reg |-> PyBool(TRUE),
     op |-> PyStr("diff"), plot_vals |-> PyStr("surp")]

tcurvpar_default ==
    [gabfr |-> PyNum(3), pre |-> PyNum(0), post |-> PyFrac(6, 10),
     grp2 |-> PyStr("surp"), test |-> PyBool(FALSE), prev |-> PyBool(FALSE)]

logregpar_default ==
    [comp |-> PyStr("surp"), ctrl |-> PyBool(FALSE), q1v4 |-> PyBool(FALSE),
     regvsurp |-> PyBool(FALSE), n_epochs |-> PyNum(1000),
     batchsize |-> PyNum(200), lr |-> PyFrac(1, 10000),
     train_p |-> PyFrac(75, 100), wd |-> PyNum(0), bal |-> PyBool(FALSE),
     alg |-> PyStr("sklearn")]

glmpar_default ==
    [each_roi |-> PyBool(FALSE), k |-> PyNum(10), test |-> PyBool(FALSE)]

latpar_default ==
    [method |-> PyStr("ttest"), p_val_thr |-> PyFrac(5, 1000),
     rel_std |-> PyFrac(5, 10)]

basepar_default == [baseline |-> PyFrac(1, 10)]

\* lines 458-459
ntuple_types ==
    <<"AnalysPar", "SessPar", "StimPar", "AutocorrPar", "PermPar",
      "QuintPar", "RoiGrpPar", "TCurvPar", "LogRegPar", "GLMPar">>

\* lines 461-463 and 475-476: the constructor at the type's index
init_fct(ntuple_name, d) ==
    CASE ntuple_name = "AnalysPar"   -> init_analyspar(d)
      [] ntuple_name = "SessPar"     -> init_sesspar(d)
      [] ntuple_name = "StimPar"     -> init_stimpar(d)
      [] ntuple_name = "AutocorrPar" -> init_autocorrpar(d)
      [] ntuple_name = "PermPar"     -> init_permpar(d)
      [] ntuple_name = "QuintPar"    -> init_quintpar(d)
      [] ntuple_name = "RoiGrpPar"   -> init_roigrppar(d)
      [] ntuple_name = "TCurvPar"    -> init_tcurvpar(d)
      [] ntuple_name = "LogRegPar"   -> init_logregpar(d)
      [] OTHER                       -> init_glmpar(d)

\* lines 469-472: the mapping after the (key, value) pairs are applied in
\* order, a later pair for the same key replacing an earlier one
modif_dict(fields, ks, vs) ==
    [f \in DOMAIN fields |->
        LET hits == {k \in 1..Len(ks) : ks[k].s = f}
        IN IF hits = {} THEN fields[f] ELSE vs[SetMax(hits)]]

\* lines 439-482
get_modif_ntuple(ntuple, keys, key_vals) ==
    LET ks == IF keys.t = "list" THEN keys.l ELSE <<keys>>
        vs == IF keys.t = "list" THEN key_vals.l ELSE <<key_vals>>
    IN IF \E k \in DOMAIN ks : ks[k].s \notin DOMAIN ntuple.fields
       THEN Raise("ValueError")
       ELSE IF ntuple.name \in Range(ntuple_types)
       THEN init_fct(ntuple.name, modif_dict(ntuple.fields, ks, vs))
       ELSE Raise("ValueError")

MaxQuints == 3

\* the bundles handed in: one of each type, as its constructor builds it
NtupleInputs ==
    {Bundle("AnalysPar", analyspar_default), Bundle("SessPar", sesspar_default),
     Bundle("StimPar", stimpar_default), Bundle("AutocorrPar", autocorrpar_default),
     Bundle("PermPar", permpar_default), Bundle("RoiGrpPar", roigrppar_default),
     init_tcurvpar(tcurvpar_default).val,
     Bundle("LogRegPar", logregpar_default), Bundle("GLMPar", glmpar_default),
     Bundle("LatPar", latpar_default), Bundle("BasePar", basepar_default)}
    \cup {init_quintpar(quintpar_default(n)).val : n \in 1..MaxQuints}

GenericVals == {PyNum(2), PyStr("x"), PyBool(FALSE), PyList(<<PyNum(1)>>), None}

\* the values tried for a field
FieldVals(ntuple_name, f) ==
    CASE ntuple_name = "QuintPar" /\ f = "n_quints" ->
           {PyNum(n) : n \in 1..MaxQuints}
      [] ntuple_name = "QuintPar" /\ f = "qu_idx" ->
           {PyStr("all"), PyList(<<PyNum(0), PyNum(1)>>)}
             \cup {PyNum(q) : q \in -1..MaxQuints}
      [] ntuple_name = "QuintPar" /\ f \in {"qu_lab", "qu_lab_pr"} ->
           {None, PyStr("a"), PyList(<<PyStr("a"), PyStr("b")>>)}
      [] ntuple_name = "TCurvPar" /\ f = "gabfr" ->
           {PyNum(1), PyList(<<PyNum(0), PyNum(1)>>), None,
            PyChars(<<"2">>), PyChars(<<"1", "_", "2">>), PyChars(<<"1", "_">>),
            PyChars(<<"a", "l", "l">>)}
      [] ntuple_name = "TCurvPar" /\ f \in {"pre", "post"} ->
           {PyNum(1), PyFrac(1, 2)}
      [] OTHER -> GenericVals

KeyInputs(ntuple) == DOMAIN ntuple.fields \cup {"bogus"}

NtupleInit ==
    /\ op = "get_modif_ntuple"
    /\ \E ntuple \in NtupleInputs :
          \/ \E f \in KeyInputs(ntuple) : \E v \in FieldVals(ntuple.name, f) :
                \/ args = [ntuple |-> ntuple, keys |-> PyStr(f), key_vals |-> v]
                \/ args = [ntuple |-> ntuple, keys |-> PyList(<<PyStr(f)>>),
                           key_vals |-> PyList(<<v>>)]
          \/ \E f1 \in KeyInputs(ntuple), f2 \in KeyInputs(ntuple) :
             \E v1 \in FieldVals(ntuple.name, f1), v2 \in FieldVals(ntuple.name, f2) :
                args = [ntuple |-> ntuple, keys |-> PyList(<<PyStr(f1), PyStr(f2)>>),
                        key_vals |-> PyList(<<v1, v2>>)]
    /\ loc = NoLoc
    /\ pc = "start"
    /\ ret = Pending

NtupleCall ==
    /\ op = "get_modif_ntuple" /\ pc = "start"
    /\ pc' = "done"
    /\ ret' = get_modif_ntuple(args.ntuple, args.keys, args.key_vals)
    /\ UNCHANGED <<op, args, loc>>

NtupleNext == NtupleCall

SpecNtuple == NtupleInit /\ [][NtupleNext]_vars

NtupleFinished == op = "get_modif_ntuple" /\ pc = "done"

\* the call names one field of the bundle: get_modif_ntuple(ntuple, key, value)
NtupleOneField ==
    /\ args.keys.t = "str"
    /\ args.keys.s \in DOMAIN args.ntuple.fields

\* C5: for every bundle type and every field of the bundle,
\* get_modif_ntuple(ntuple, key, value) returns a bundle of the same type
\* whose named field equals the supplied value and whose other fields equal
\* those of the original bundle
C5_FieldReplacedOthersKept ==
    (NtupleFinished /\ NtupleOneField) =>
        /\ ret.kind = "return"
        /\ ret.val.name = args.ntuple.name
        /\ ret.val.fields[args.keys.s] = args.key_vals
        /\ \A f \in DOMAIN args.ntuple.fields \ {args.keys.s} :
              ret.val.fields[f] = args.ntuple.fields[f]

\* get_modif_ntuple on a bundle of one of the ten dispatched types whose
\* constructor stores its arguments as given does replace the field and keep
\* the others
NtupleStoredAsGiven ==
    (NtupleFinished /\ NtupleOneField
        /\ args.ntuple.name \in Range(ntuple_types) \ {"QuintPar", "TCurvPar"}) =>
        ret = Return(Bundle(args.ntuple.name,
                            [args.ntuple.fields EXCEPT ![args.keys.s] = args.key_vals]))

\* a LatPar or BasePar bundle is refused as a type that is not recognized
NtupleLatBaseRefused ==
    (NtupleFinished /\ args.ntuple.name \in {"LatPar", "BasePar"}) =>
        ret = Raise("ValueError")

\* a key that is not a field of the bundle is refused
NtupleUnknownKeyRefused ==
    (NtupleFinished /\ args.keys.t = "str" /\ args.keys.s = "bogus") =>
        ret = Raise("ValueError")

\* qu_idx='all' comes back as the list of every quintile index, not as 'all'
NtupleQuIdxAllExpanded ==
    (NtupleFinished /\ NtupleOneField /\ args.ntuple.name = "QuintPar"
        /\ args.keys.s = "qu_idx" /\ args.key_vals = PyStr("all")
        /\ ret.kind = "return") =>
        ret.val.fields.qu_idx =
            PyList([k \in 1..args.ntuple.fields.n_quints.n |-> PyNum(k - 1)])

(***************************************************************************)
(* sess_util/sess_sync_util: compare_alignments, get_twop2stimfr           *)
(***************************************************************************)
\* longest alignment array handed to compare_alignments
MaxAlignLen == 2

\* highest frame number in an alignment array
MaxAlignFr == 3

\* largest tolerance tried
MaxTolerance == 1

AlignInputs == SeqsOf(0..MaxAlignFr, 0, MaxAlignLen)

\* lines 787-791 carried over the frames both arrays have, without the test
\* of lines 783-785
compare_alignments_unchecked(alignment1, alignment2, tolerance) ==
    LET n == IF Len(alignment1) < Len(alignment2) THEN Len(alignment1) ELSE Len(alignment2)
        alignment_diffs == [k \in 1..n |-> alignment2[k] - alignment1[k]]
        n_alignment_diffs == Cardinality({k \in 1..n : Abs(alignment_diffs[k]) > tolerance})
    IN IF n = 0 THEN [ret |-> Raise("ValueError"), log |-> <<>>]
       ELSE [ret |-> Return(None),
             log |-> IF n_alignment_diffs # 0
                     THEN <<[level |-> "warning", n |-> n_alignment_diffs,
                             max |-> SetMax({Abs(alignment_diffs[k]) : k \in 1..n})]>>
                     ELSE <<>>]

\* lines 783-798: the outcome and what is logged
compare_alignments(alignment1, alignment2, tolerance) ==
    IF Len(alignment1) # Len(alignment2)
    THEN [ret |-> Raise("ValueError"), log |-> <<>>]
    ELSE LET alignment_diffs ==
                 [k \in DOMAIN alignment1 |-> alignment2[k] - alignment1[k]]
             n_alignment_diffs ==
                 Cardinality({k \in DOMAIN alignment_diffs :
                                 Abs(alignment_diffs[k]) > tolerance})
         IN IF Len(alignment_diffs) = 0
            THEN \* np.max of an empty array
                 [ret |-> Raise("ValueError"), log |-> <<>>]
            ELSE [ret |-> Return(None),
                  log |-> IF n_alignment_diffs # 0
                          THEN <<[level |-> "warning", n |-> n_alignment_diffs,
                                  max |-> SetMax({Abs(alignment_diffs[k]) :
                                                     k \in DOMAIN alignment_diffs})]>>
                          ELSE <<>>]

CmpInit ==
    /\ op = "compare_alignments"
    /\ \E alignment1 \in AlignInputs, alignment2 \in AlignInputs,
          tolerance \in 0..MaxTolerance :
           args = [alignment1 |-> alignment1, alignment2 |-> alignment2,
                   tolerance |-> tolerance]
    /\ loc = [log |-> <<>>]
    /\ pc = "start"
    /\ ret = Pending

CmpCall ==
    /\ op = "compare_alignments" /\ pc = "start"
    /\ LET out == compare_alignments(args.alignment1, args.alignment2, args.tolerance)
       IN /\ ret' = out.ret
          /\ loc' = [log |-> out.log]
    /\ pc' = "done"
    /\ UNCHANGED <<op, args>>

\* most stimulus frames in stim2twopfr
MaxStimFr == 4

\* highest two-photon frame number in stim2twopfr
MaxTwopFr == 5

\* stim2twopfr: a cumulative alignment, one 2p frame number per stimulus frame
Stim2TwopInputs ==
    {a \in SeqsOf(0..MaxTwopFr, 1, MaxStimFr) :
        \A k \in 1..(Len(a) - 1) : a[k] <= a[k + 1]}

\* np.insert(arr, at, vals) with a 0-based position
np_insert(arr, at, vals) ==
    SubSeq(arr, 1, at) \o vals \o SubSeq(arr, at + 1, Len(arr))

\* 0-based position of the first item equal to v
first_index(arr, v) == SetMin({k \in 0..(Len(arr) - 1) : At(arr, k) = v})

TwopInit ==
    /\ op = "get_twop2stimfr"
    /\ \E stim2twopfr \in Stim2TwopInputs, n_twop_fr \in 0..(MaxTwopFr + 1) :
           args = [stim2twopfr |-> stim2twopfr, n_twop_fr |-> n_twop_fr]
    /\ loc = [log |-> <<>>]
    /\ pc = "start"
    /\ ret = Pending

\* lines 731-739: the differences, the stimulus indices where the 2p frame
\* moves on, the dropped ones, and the slice of them the loop visits
TwopStart ==
    /\ op = "get_twop2stimfr" /\ pc = "start"
    /\ LET a == args.stim2twopfr
           stim2twopfr_diff == [k \in DOMAIN a |-> IF k = 1 THEN 1 ELSE a[k] - a[k - 1]]
           stim_idx == SetToSortedSeq({k - 1 : k \in {j \in DOMAIN a : stim2twopfr_diff[j] # 0}})
           dropped  == SetToSortedSeq({k - 1 : k \in {j \in DOMAIN a : stim2twopfr_diff[j] > 1}})
       IN loc' = [stim2twopfr_diff |-> stim2twopfr_diff, stim_idx |-> stim_idx,
                  dropped |-> dropped,
                  todo |-> IF Len(dropped) = 0 THEN <<>>
                           ELSE <<dropped[Len(dropped)]>>,
                  log |-> IF Len(dropped) > 0
                          THEN <<[level |-> "warning", n |-> Len(dropped)]>>
                          ELSE <<>>]
    /\ pc' = "for"
    /\ UNCHANGED <<op, args, ret>>

\* lines 741-744: one pass of `for drop in dropped[-1:]`
TwopDrop ==
    /\ op = "get_twop2stimfr" /\ pc = "for" /\ loc.todo # <<>>
    /\ LET drop == Head(loc.todo)
           at   == first_index(loc.stim_idx, drop)
           add  == [k \in 1..(At(loc.stim2twopfr_diff, drop) - 1) |->
                       At(loc.stim_idx, at - 1)]
       IN loc' = [loc EXCEPT !.stim_idx = np_insert(loc.stim_idx, at, add),
                             !.todo = Tail(loc.todo)]
    /\ UNCHANGED <<op, args, pc, ret>>

\* lines 746-756: the slice assignment, which numpy refuses unless the
\* lengths agree or a single value is broadcast; the refusal is caught
TwopAssign ==
    /\ op = "get_twop2stimfr" /\ pc = "for" /\ loc.todo = <<>>
    /\ LET n     == args.n_twop_fr
           start == At(args.stim2twopfr, 0)
           end   == At(args.stim2twopfr, Len(args.stim2twopfr) - 1) + 1
           lo    == IF start < n THEN start ELSE n
           hi    == IF end < n THEN end ELSE n
           fits  == Len(loc.stim_idx) = hi - lo \/ Len(loc.stim_idx) = 1
       IN IF fits
          THEN /\ ret' = Return([f \in 1..n |->
                            IF lo <= f - 1 /\ f - 1 < hi
                            THEN Num(IF Len(loc.stim_idx) = 1 THEN loc.stim_idx[1]
                                     ELSE loc.stim_idx[f - lo])
                            ELSE NaN])
               /\ loc' = loc
          ELSE /\ ret' = Return([f \in 1..n |-> NaN])
               /\ loc' = [loc EXCEPT !.log = Append(loc.log, [level |-> "RuntimeWarning"])]
    /\ pc' = "done"
    /\ UNCHANGED <<op, args>>

SyncNext == CmpCall \/ TwopStart \/ TwopDrop \/ TwopAssign

SpecSync == (CmpInit \/ TwopInit) /\ [][SyncNext]_vars

CmpFinished == op = "compare_alignments" /\ pc = "done"

\* some frame's two alignments differ by more than the tolerance
CmpSomeFrameOff ==
    \E k \in DOMAIN args.alignment1 \cap DOMAIN args.alignment2 :
        Abs(args.alignment2[k] - args.alignment1[k]) > args.tolerance

\* C11 as stated: compare_alignments never fails: for every pair of alignment
\* arrays it returns without raising, and it logs a warning exactly when some
\* frame's two alignments differ by more than the tolerance.
C11_AsStated ==
    CmpFinished =>
        /\ ret.kind = "return"
        /\ (loc.log # <<>>) <=> CmpSomeFrameOff

\* C11 (amended): compare_alignments returns without raising exactly for two
\* arrays of the same non-zero length, and then logs one warning, with the
\* count of frames off by more than the tolerance and the largest absolute
\* difference, exactly when there is such a frame; arrays of different
\* lengths, and two empty arrays, raise ValueError and nothing is logged.
C11_SameLengthNeverFails ==
    CmpFinished =>
        IF Len(args.alignment1) = Len(args.alignment2) /\ Len(args.alignment1) > 0
        THEN /\ ret = Return(None)
             /\ (loc.log # <<>>) <=> CmpSomeFrameOff
             /\ loc.log # <<>> =>
                   /\ Len(loc.log) = 1
                   /\ loc.log[1].n = Cardinality({k \in DOMAIN args.alignment1 :
                         Abs(args.alignment2[k] - args.alignment1[k]) > args.tolerance})
                   /\ \A k \in DOMAIN args.alignment1 :
                         Abs(args.alignment2[k] - args.alignment1[k]) <= loc.log[1].max
        ELSE ret = Raise("ValueError") /\ loc.log = <<>>

C11_Witness ==
    /\ CmpFinished
    /\ Len(args.alignment1) = MaxAlignLen /\ Len(args.alignment2) = MaxAlignLen
    /\ ret = Return(None)
    /\ loc.log # <<>> /\ loc.log[1].n = MaxAlignLen

TwopFinished == op = "get_twop2stimfr" /\ pc = "done"

\* the stimulus frame active at the start of 2p frame f: the first stimulus
\* frame shown at the latest 2p frame up to f that has one
ActiveStimFr(a, f) ==
    LET latest == SetMax({a[k] : k \in {j \in DOMAIN a : a[j] <= f}})
    IN SetMin({k - 1 : k \in {j \in DOMAIN a : a[j] = latest}})

\* number of gaps of more than one 2p frame between consecutive entries
NDropped(a) == Cardinality({k \in 2..Len(a) : a[k] - a[k - 1] > 1})

TwopExpected(a, n) ==
    [f \in 1..n |-> IF a[1] <= f - 1 /\ f - 1 <= a[Len(a)]
                    THEN Num(ActiveStimFr(a, f - 1)) ELSE NaN]

\* C12: for every non-decreasing stim2twopfr whose span fits within
\* n_twop_fr, and for any number of dropped stimulus frames, the result holds
\* at every 2p frame in [stim2twopfr[0], stim2twopfr[-1]] the index of the
\* stimulus frame active at its start (the preceding index repeated across
\* each gap) and NaN at every frame outside that range.
C12_EveryGapFilled ==
    (TwopFinished /\ At(args.stim2twopfr, Len(args.stim2twopfr) - 1) < args.n_twop_fr) =>
        ret = Return(TwopExpected(args.stim2twopfr, args.n_twop_fr))

\* with at most one gap in stim2twopfr the back-mapping is as C12 describes
TwopOneGapFilled ==
    (TwopFinished /\ At(args.stim2twopfr, Len(args.stim2twopfr) - 1) < args.n_twop_fr
        /\ NDropped(args.stim2twopfr) <= 1) =>
        ret = Return(TwopExpected(args.stim2twopfr, args.n_twop_fr))

(***************************************************************************)
(* sess_util/sess_data_util.format_stim_criteria: the frame ranges         *)
(***************************************************************************)
\* highest 2p start frame of a stimulus segment
MaxSegStart == 2

\* most 2p frames in a stimulus segment
MaxSegFrames == 2

\* stim_df, by the three columns the ranges are read from: one or two segments
StimDfRows ==
    {[start_frame_twop |-> st, stop_frame_twop |-> st + nf, num_frames_twop |-> nf] :
        st \in 0..MaxSegStart, nf \in 1..MaxSegFrames}

StimDfs == {{r1, r2} : r1 \in StimDfRows, r2 \in StimDfRows}

\* a range argument: 'any', None, or a list of 0 to 3 frame numbers
RangeArgInputs ==
    {PyStr("any"), None, PyList(<<>>), PyList(<<PyNum(1)>>),
     PyList(<<PyNum(1), PyNum(4)>>), PyList(<<PyNum(2), PyNum(3)>>),
     PyList(<<PyNum(1), PyNum(2), PyNum(3)>>)}

\* len(x): of a list its length, of a str its number of characters
py_len(x) ==
    CASE x.t = "list" -> Return(Len(x.l))
      [] x.t = "str"  -> Return(IF x = PyStr("any") THEN 3 ELSE 1)
      [] OTHER        -> Raise("TypeError")

\* `lo, hi = x`: unpacking into two names
unpack2(x) ==
    IF x.t = "list" /\ Len(x.l) = 2 THEN Return(<<x.l[1].n, x.l[2].n>>)
    ELSE Raise("ValueError")

\* one of the three if / elif / else blocks of lines 552-575: the bounds for
\* the range argument arg when the elif tests the length of len_of
range_bounds(stim_df, column, arg, len_of) ==
    IF arg \in {PyStr("any"), None}
    THEN Return(<<SetMin({r[column] : r \in stim_df}),
                  SetMax({r[column] : r \in stim_df}) + 1>>)
    ELSE LET n == py_len(len_of)
         IN IF n.kind = "raise" THEN n
            ELSE IF n.val = 2 THEN unpack2(arg)
            ELSE Raise("ValueError")

FscInit ==
    /\ op = "format_stim_criteria"
    /\ \E stim_df \in StimDfs, stimtype \in {"gabors", "visflow", "both"},
          start2pfr \in RangeArgInputs, end2pfr \in RangeArgInputs,
          num2pfr \in RangeArgInputs :
           args = [stim_df |-> stim_df, stimtype |-> stimtype, start2pfr |-> start2pfr,
                   end2pfr |-> end2pfr, num2pfr |-> num2pfr]
    /\ loc = NoLoc
    /\ pc = "start"
    /\ ret = Pending

\* lines 503-550: the stimulus type is checked and the list criteria are
\* made lists; none of it reads or writes the three range arguments
FscLists ==
    /\ op = "format_stim_criteria" /\ pc = "start"
    /\ IF args.stimtype \in {"gabors", "visflow"}
       THEN pc' = "start2pfr" /\ ret' = ret
       ELSE pc' = "done" /\ ret' = accepted_values_error
    /\ UNCHANGED <<op, args, loc>>

\* lines 552-559
FscStart2pfr ==
    /\ op = "format_stim_criteria" /\ pc = "start2pfr"
    /\ LET b == range_bounds(args.stim_df, "start_frame_twop", args.start2pfr, args.start2pfr)
       IN IF b.kind = "raise"
          THEN pc' = "done" /\ ret' = b /\ loc' = loc
          ELSE pc' = "end2pfr" /\ ret' = ret /\ loc' = [start2pfr |-> b.val]
    /\ UNCHANGED <<op, args>>

\* lines 561-567
FscEnd2pfr ==
    /\ op = "format_stim_criteria" /\ pc = "end2pfr"
    /\ LET b == range_bounds(args.stim_df, "stop_frame_twop", args.end2pfr, args.start2pfr)
       IN IF b.kind = "raise"
          THEN pc' = "done" /\ ret' = b /\ loc' = loc
          ELSE pc' = "num2pfr" /\ ret' = ret
               /\ loc' = [start2pfr |-> loc.start2pfr, end2pfr |-> b.val]
    /\ UNCHANGED <<op, args>>

\* lines 569-579
FscNum2pfr ==
    /\ op = "format_stim_criteria" /\ pc = "num2pfr"
    /\ LET b == range_bounds(args.stim_df, "num_frames_twop", args.num2pfr, args.start2pfr)
       IN IF b.kind = "raise"
          THEN ret' = b
          ELSE ret' = Return([start2pfr |-> loc.start2pfr, end2pfr |-> loc.end2pfr,
                              num2pfr |-> b.val])
    /\ pc' = "done"
    /\ UNCHANGED <<op, args, loc>>

StimCritNext == FscLists \/ FscStart2pfr \/ FscEnd2pfr \/ FscNum2pfr

SpecStimCrit == FscInit /\ [][StimCritNext]_vars

FscFinished ==
    op = "format_stim_criteria" /\ pc = "done" /\ args.stimtype \in {"gabors", "visflow"}

\* what C13 expects for one range argument, whatever the other two are
RangeExpected(stim_df, column, arg) ==
    range_bounds(stim_df, column, arg, arg)

FscExpected ==
    [start2pfr |-> RangeExpected(args.stim_df, "start_frame_twop", args.start2pfr),
     end2pfr   |-> RangeExpected(args.stim_df, "stop_frame_twop", args.end2pfr),
     num2pfr   |-> RangeExpected(args.stim_df, "num_frames_twop", args.num2pfr)]

\* C13: format_stim_criteria treats start2pfr, end2pfr and num2pfr
\* independently: for each one 'any' or None yields the observed column
\* minimum and maximum + 1, a length-2 sequence yields its two elements, and
\* any other length raises the InvalidInput-kind error, irrespective of the
\* values passed for the other two.
C13_RangesIndependent ==
    FscFinished =>
        IF \E a \in DOMAIN FscExpected : FscExpected[a].kind = "raise"
        THEN IsInvalidInput(ret)
        ELSE ret = Return([a \in DOMAIN FscExpected |-> FscExpected[a].val])

\* when start2pfr itself is a length-2 sequence, the three ranges are treated
\* as C13 says
FscStartGivenRangesHold ==
    (FscFinished /\ args.start2pfr.t = "list" /\ Len(args.start2pfr.l) = 2) =>
        IF \E a \in DOMAIN FscExpected : FscExpected[a].kind = "raise"
        THEN IsInvalidInput(ret)
        ELSE ret = Return([a \in DOMAIN FscExpected |-> FscExpected[a].val])

(***************************************************************************)
(* sess_util/sess_file_util.get_check_pupil_data_h5_name                   *)
(***************************************************************************)
\* line 864: the widths of the sessid, mouseid and date fields
expected_lens == <<9, 6, 8>>

\* A file name is held as the fields of its stem between the underscores,
\* and its extension: '712483302_389778_20180621_pupil_data_df.h5' is
\* [parts |-> <<"712483302", "389778", "20180621", "pupil", "data", "df">>,
\*  suffix |-> ".h5"].
H5Name(parts, suffix) == [parts |-> parts, suffix |-> suffix]

\* len() of a field
FieldLen(f) ==
    CASE f \in {"712483302", "758519303"} -> 9
      [] f \in {"20180621", "71248330"}   -> 8
      [] f = "2018062"                    -> 7
      [] f = "389778"                     -> 6
      [] f \in {"38977", "pupil"}         -> 5
      [] f = "data"                       -> 4
      [] f = "df"                         -> 2
      [] OTHER                            -> 1

\* six-field stems, right or wrong in one or more fields
H5BaseParts ==
    {<<se, mo, da, "pupil", "data", last>> :
        se \in {"712483302", "758519303", "71248330"}, mo \in {"389778", "38977"},
        da \in {"20180621", "2018062"}, last \in {"df", "x"}}

\* the fields of parts at the positions kept, in order
KeepFields(parts, kept) ==
    LET idx == SetToSortedSeq(kept)
    IN [k \in DOMAIN idx |-> parts[idx[k]]]

\* the stems tried: a six-field stem with any of its fields left out (at
\* least one stays), with or without one more field at the end
H5PartsInputs ==
    LET cut == {KeepFields(b, kept) : b \in H5BaseParts,
                                       kept \in (SUBSET (1..6)) \ {{}}}
    IN cut \cup {Append(c, "x") : c \in cut}

\* lines 857-885 and 887-894
get_check_pupil_data_h5_name(pup_h5_name, sessid, mouseid, date) ==
    IF pup_h5_name # None
    THEN IF pup_h5_name.suffix # ".h5" THEN Raise("ValueError")
         ELSE LET path_parts == pup_h5_name.parts
                  expected_parts == <<sessid, mouseid, date>>
                  len_error == Len(path_parts) # 6
                  part_error ==
                      \E p \in 1..3 :
                          IF expected_parts[p] # None
                          THEN path_parts[p] # expected_parts[p].s
                          ELSE FieldLen(path_parts[p]) # expected_lens[p]
                  tail == SubSeq(path_parts,
                                 IF Len(path_parts) > 3 THEN Len(path_parts) - 2 ELSE 1,
                                 Len(path_parts))
                  tail_error == tail # <<"pupil", "data", "df">>
              IN IF Len(path_parts) < 3
                 THEN \* path_parts[p] in the loop over the three expected parts
                      Raise("IndexError")
                 ELSE IF len_error \/ part_error \/ tail_error
                 THEN Raise("RuntimeError")
                 ELSE Return(pup_h5_name)
    ELSE IF sessid = None \/ mouseid = None \/ date = None
         THEN Raise("ValueError")
         ELSE Return(H5Name(<<sessid.s, mouseid.s, date.s, "pupil", "data", "df">>, ".h5"))

H5Init ==
    /\ op = "get_check_pupil_data_h5_name"
    /\ \E pup_h5_name \in {None} \cup {H5Name(parts, suffix) :
                                parts \in H5PartsInputs, suffix \in {".h5", ".txt"}},
          sessid \in {None, PyStr("712483302"), PyStr("758519303")},
          mouseid \in {None, PyStr("389778")},
          date \in {None, PyStr("20180621")} :
           args = [pup_h5_name |-> pup_h5_name, sessid |-> sessid,
                   mouseid |-> mouseid, date |-> date]
    /\ loc = NoLoc
    /\ pc = "start"
    /\ ret = Pending

H5Call ==
    /\ op = "get_check_pupil_data_h5_name" /\ pc = "start"
    /\ ret' = get_check_pupil_data_h5_name(args.pup_h5_name, args.sessid,
                                            args.mouseid, args.date)
    /\ pc' = "done"
    /\ UNCHANGED <<op, args, loc>>

H5Next == H5Call

SpecH5Name == H5Init /\ [][H5Next]_vars

\* a finished check of a given '.h5' name
H5Checked ==
    /\ op = "get_check_pupil_data_h5_name" /\ pc = "done"
    /\ args.pup_h5_name # None
    /\ args.pup_h5_name.suffix = ".h5"

\* the stem is {sessid:9}_{mouseid:6}_{date:8}_pupil_data_df
H5WellFormed(parts) ==
    /\ Len(parts) = 6
    /\ \A p \in 1..3 : FieldLen(parts[p]) = expected_lens[p]
    /\ SubSeq(parts, 4, 6) = <<"pupil", "data", "df">>

\* the fields agree with the sessid, mouseid and date that were supplied
H5AsSupplied(parts) ==
    /\ args.sessid # None => parts[1] = args.sessid.s
    /\ args.mouseid # None => parts[2] = args.mouseid.s
    /\ args.date # None => parts[3] = args.date.s

\* C14: given a file name to check, get_check_pupil_data_h5_name raises the
\* naming-validation failure (RuntimeError) for every '.h5' name whose stem
\* is not six underscore-separated fields of the form
\* {sessid:9}_{mouseid:6}_{date:8}_pupil_data_df (wrong width, wrong literal
\* suffix or any wrong field count) or whose fields differ from a supplied
\* sessid / mouseid / date, and returns the name otherwise.
C14_BadNameIsRuntimeError ==
    H5Checked =>
        IF H5WellFormed(args.pup_h5_name.parts) /\ H5AsSupplied(args.pup_h5_name.parts)
        THEN ret = Return(args.pup_h5_name)
        ELSE ret = Raise("RuntimeError")

\* for names of at least three fields the check is as C14 says
H5ThreeFieldsChecked ==
    (H5Checked /\ Len(args.pup_h5_name.parts) >= 3) =>
        IF H5WellFormed(args.pup_h5_name.parts) /\ H5AsSupplied(args.pup_h5_name.parts)
        THEN ret = Return(args.pup_h5_name)
        ELSE ret = Raise("RuntimeError")

(***************************************************************************)
(* sess_util/sess_gen_util: get_analysdir and get_params_from_str          *)
(***************************************************************************)
\* Directory names are held by their characters, so that formatting,
\* splitting and the `in` substring tests are carried out as the code does.

\* `sub in s`
Contains(s, sub) ==
    \E i \in 1..(Len(s) - Len(sub) + 1) : SubSeq(s, i, i + Len(sub) - 1) = sub

\* '{}'.format(n) for a number below 1000
RECURSIVE num_chars(_)
num_chars(n) ==
    IF n < 10 THEN <<NumStr(n)>> ELSE Append(num_chars(n \div 10), NumStr(n % 10))

\* '{}'.format(s) for the words that are put into a directory name
word_chars(w) ==
    CASE w = "soma" -> <<"s", "o", "m", "a">> [] w = "dend" -> <<"d", "e", "n", "d">>
      [] w = "dff" -> <<"d", "f", "f">> [] w = "raw" -> <<"r", "a", "w">>
      [] w = "surp" -> <<"s", "u", "r", "p">> [] w = "AvB" -> <<"A", "v", "B">> [] w = "AvC" -> <<"A", "v", "C">>
      [] w = "BvC" -> <<"B", "v", "C">> [] w = "DvE" -> <<"D", "v", "E">>
      [] w = "right" -> <<"r", "i", "g", "h", "t">> [] w = "left" -> <<"l", "e", "f", "t">>
      [] w = "gabors" -> <<"g", "a", "b", "o", "r", "s">> [] w = "bricks" -> <<"b", "r", "i", "c", "k", "s">>
      [] w = "both" -> <<"b", "o", "t", "h">> [] w = "scale" -> <<"s", "c", "a", "l", "e">>
      [] w = "shuffled" -> <<"s", "h", "u", "f", "f", "l", "e", "d">> [] w = "gab" -> <<"g", "a", "b">>
      [] w = "bri" -> <<"b", "r", "i">> [] w = "gab4" -> <<"g", "a", "b", "4">> [] w = "bri256" -> <<"b", "r", "i", "2", "5", "6">>
      [] w = "_scaled" -> <<"_", "s", "c", "a", "l", "e", "d">> [] w = ", scaled" -> <<",", " ", "s", "c", "a", "l", "e", "d">>
      [] w = "_shuffled" -> <<"_", "s", "h", "u", "f", "f", "l", "e", "d">> [] w = ", shuffled" -> <<",", " ", "s", "h", "u", "f", "f", "l", "e", "d">>
      [] OTHER -> <<>>

\* sess_str_util.stim_par_str(stimtype, bri_dir, bri_size, gabk, 'file'):
\* 'gab' or 'bri', the kappa or size (or 'both'), and a single direction
stim_par_str(stimtype, bri_dir, bri_size, gabk) ==
    IF stimtype = "gabors"
    THEN word_chars("gab") \o
         (IF gabk.t = "list" /\ Len(gabk.l) > 1 THEN <<"_">> \o word_chars("both")
          ELSE num_chars(list_if_not(gabk)[1].n))
    ELSE word_chars("bri") \o
         (IF bri_size.t = "list" /\ Len(bri_size.l) > 1 THEN <<"_">> \o word_chars("both")
          ELSE num_chars(list_if_not(bri_size)[1].n)) \o
         (IF bri_dir.t = "list" /\ Len(bri_dir.l) > 1 THEN <<>>
          ELSE <<"_">> \o word_chars(list_if_not(bri_dir)[1].s))

\* sess_str_util.scale_par_str(scale) with the string type left at its
\* default, for a file name or for printing
scale_par_str(scale, str_type) ==
    IF scale THEN word_chars(IF str_type = "file" THEN "_scaled" ELSE ", scaled")
    ELSE <<>>

\* sess_str_util.shuff_par_str(shuffle), likewise
shuff_par_str(shuffle, str_type) ==
    IF shuffle THEN word_chars(IF str_type = "file" THEN "_shuffled" ELSE ", shuffled")
    ELSE <<>>

\* lines 884-898 with the comparison left out of the name
get_analysdir_no_comp(a, str_type) ==
    <<"m">> \o num_chars(a.mouse_n) \o <<"_", "s">> \o num_chars(a.sess_n)
      \o <<"_">> \o word_chars(a.layer)
      \o <<"_">> \o stim_par_str(a.stimtype, a.bri_dir, a.bri_size, a.gabk)
      \o <<"_">> \o word_chars(a.fluor)
      \o scale_par_str(a.scale, str_type)
      \o shuff_par_str(a.shuffle, str_type)

\* lines 884-898
get_analysdir(a, str_type) ==
    <<"m">> \o num_chars(a.mouse_n) \o <<"_", "s">> \o num_chars(a.sess_n)
      \o <<"_">> \o word_chars(a.layer)
      \o <<"_">> \o stim_par_str(a.stimtype, a.bri_dir, a.bri_size, a.gabk)
      \o <<"_">> \o word_chars(a.fluor)
      \o scale_par_str(a.scale, str_type)
      \o (IF a.comp = None THEN <<>> ELSE <<"_">> \o word_chars(a.comp.s))
      \o shuff_par_str(a.shuffle, str_type)

\* line 980: the comparison types looked for, in order
comptypes == <<"surp", "AvB", "AvC", "BvC", "DvE">>

\* lines 927-989
get_params_from_str(param_str) ==
    LET parts == split_chars(param_str, "_")
        has(w) == Contains(param_str, word_chars(w))
        mouse_n == int_of_chars(Tail(parts[1]))
        sess_n  == IF Len(parts) < 2 THEN Raise("IndexError")
                   ELSE int_of_chars(Tail(parts[2]))
        found   == {k \in DOMAIN comptypes : has(comptypes[k])}
    IN IF mouse_n.kind = "raise" THEN mouse_n
       ELSE IF sess_n.kind = "raise" THEN sess_n
       ELSE IF ~has("gab") /\ ~has("bri") THEN Raise("ValueError")
       ELSE IF ~has("soma") /\ ~has("dend") THEN Raise("ValueError")
       ELSE IF ~has("dff") /\ ~has("raw") THEN Raise("ValueError")
       ELSE Return(
         [mouse_n  |-> mouse_n.val,
          sess_n   |-> sess_n.val,
          stimtype |-> PyStr(IF has("gab") THEN "gabors" ELSE "bricks"),
          gabk     |-> IF ~has("gab") THEN PyStr("none")
                       ELSE IF has("both") THEN PyList(<<PyNum(4), PyNum(16)>>)
                       ELSE IF has("gab4") THEN PyNum(4) ELSE PyNum(16),
          bri_size |-> IF has("gab") THEN PyStr("none")
                       ELSE IF has("both") THEN PyList(<<PyNum(128), PyNum(256)>>)
                       ELSE IF has("bri256") THEN PyNum(256) ELSE PyNum(128),
          bri_dir  |-> IF has("gab") THEN PyStr("none")
                       ELSE IF has("right") THEN PyStr("right")
                       ELSE IF has("left") THEN PyStr("left")
                       ELSE PyList(<<PyStr("right"), PyStr("left")>>),
          layer    |-> PyStr(IF has("soma") THEN "soma" ELSE "dend"),
          fluor    |-> PyStr(IF has("dff") THEN "dff" ELSE "raw"),
          scale    |-> has("scale"),
          comp     |-> IF found = {} THEN None ELSE PyStr(comptypes[SetMax(found)]),
          shuffle  |-> has("shuffled")])

\* highest mouse number put into a directory name
MaxMouseN == 12

AnalysdirInputs ==
    [mouse_n : {1, MaxMouseN}, sess_n : 1..MaxSess, layer : {"soma", "dend"},
     fluor : {"dff", "raw"}, scale : BOOLEAN, stimtype : {"gabors", "bricks"},
     bri_dir : {PyStr("right"), PyStr("left"), PyList(<<PyStr("right"), PyStr("left")>>)},
     bri_size : {PyNum(128), PyNum(256), PyList(<<PyNum(128), PyNum(256)>>)},
     gabk : {PyNum(16), PyNum(4), PyList(<<PyNum(4), PyNum(16)>>)},
     comp : {None} \cup {PyStr(comptypes[k]) : k \in DOMAIN comptypes},
     shuffle : BOOLEAN]

AdirInit ==
    /\ op = "get_analysdir"
    /\ \E a \in AnalysdirInputs, str_type \in {"file", "print"} :
          /\ a.stimtype = "gabors" => a.bri_dir = PyStr("right") /\ a.bri_size = PyNum(128)
          /\ a.stimtype = "bricks" => a.gabk = PyNum(16)
          /\ args = [a |-> a, str_type |-> str_type]
    /\ loc = NoLoc
    /\ pc = "start"
    /\ ret = Pending

\* get_analysdir(...): the directory name
AdirFormat ==
    /\ op = "get_analysdir" /\ pc = "start"
    /\ loc' = [analysdir |-> get_analysdir(args.a, args.str_type)]
    /\ pc' = "parse"
    /\ UNCHANGED <<op, args, ret>>

\* get_params_from_str(analysdir)
AdirParse ==
    /\ op = "get_analysdir" /\ pc = "parse"
    /\ ret' = get_params_from_str(loc.analysdir)
    /\ pc' = "done"
    /\ UNCHANGED <<op, args, loc>>

AnalysdirNext == AdirFormat \/ AdirParse

SpecAnalysdir == AdirInit /\ [][AnalysdirNext]_vars

AdirFinished == op = "get_analysdir" /\ pc = "done"

MaxVals == 3

\* most rows of the dataframe
MaxRows == 2

\* the values a categorical column takes: gabor frames 'G', 0, 1, 2
CategVals == {PyStr("G"), PyNum(0), PyNum(1), PyNum(2)}

\* the names given to the values
TargNames == {PyStr("G"), PyStr("A"), PyStr("B"), PyStr("C")}

NoRepeats(q) == \A i \in DOMAIN q, j \in DOMAIN q : i # j => q[i] # q[j]

\* vals with targ_vals: values without repeats, each paired with a name of
\* its own (as in add_categ_stim_cols) or with itself
ValsTargInputs ==
    {[vals |-> v, targ_vals |-> t] :
        v \in {q \in SeqsOf(CategVals, 1, MaxVals) : NoRepeats(q)},
        t \in {q \in SeqsOf(TargNames, 1, MaxVals) : NoRepeats(q)}}
    \cup {[vals |-> v, targ_vals |-> v] :
             v \in {q \in SeqsOf(CategVals, 1, MaxVals) : NoRepeats(q)}}

\* f"{col}${targ}"
binary_col_name(col, targ) ==
    col \o "$" \o (IF targ.t = "num" THEN NumStr(targ.n) ELSE targ.s)

\* line 272 left out: no 1 for the column's own value
this_mapping_all_zero(vals, val) == [v \in Range(vals) |-> PyNum(0)]

\* lines 266-272: every value mapped to 0, and val to 1
this_mapping(vals, val) ==
    [v \in Range(vals) |-> IF v = val THEN PyNum(1) ELSE PyNum(0)]

\* Series.replace(mapping): each value that is a key is replaced by what the
\* key maps to, the others stay
series_replace(series, mapping) ==
    [k \in DOMAIN series |->
        IF series[k] \in DOMAIN mapping THEN mapping[series[k]] ELSE series[k]]

CbcInit ==
    /\ op = "convert_to_binary_cols"
    /\ \E rows \in SeqsOf(CategVals, 0, MaxRows), vt \in ValsTargInputs :
          /\ Len(vt.vals) = Len(vt.targ_vals)
          /\ args = [df |-> [c \in {"gabfr"} |-> rows], col |-> "gabfr",
                     vals |-> vt.vals, targ_vals |-> vt.targ_vals]
    /\ loc = NoLoc
    /\ pc = "start"
    /\ ret = Pending

\* lines 262-264: the values of the column must all be in vals
CbcCheck ==
    /\ op = "convert_to_binary_cols" /\ pc = "start"
    /\ IF Range(args.df[args.col]) \subseteq Range(args.vals)
       THEN /\ pc' = "for" /\ ret' = ret
            /\ loc' = [df |-> args.df, k |-> 0]
       ELSE /\ pc' = "done" /\ ret' = Raise("ValueError") /\ loc' = loc
    /\ UNCHANGED <<op, args>>

\* lines 269-273: one pass of the loop over zip(vals, targ_vals)
CbcColumn ==
    /\ op = "convert_to_binary_cols" /\ pc = "for"
    /\ loc.k < Len(args.vals) /\ loc.k < Len(args.targ_vals)
    /\ LET val == At(args.vals, loc.k)
           col_name == binary_col_name(args.col, At(args.targ_vals, loc.k))
           new == series_replace(loc.df[args.col], this_mapping(args.vals, val))
       IN loc' = [df |-> [c \in DOMAIN loc.df \cup {col_name} |->
                            IF c = col_name THEN new ELSE loc.df[c]],
                  k |-> loc.k + 1]
    /\ UNCHANGED <<op, args, pc, ret>>

\* lines 274-276: the original column is dropped
CbcDrop ==
    /\ op = "convert_to_binary_cols" /\ pc = "for"
    /\ ~(loc.k < Len(args.vals) /\ loc.k < Len(args.targ_vals))
    /\ ret' = Return([c \in DOMAIN loc.df \ {args.col} |-> loc.df[c]])
    /\ pc' = "done"
    /\ UNCHANGED <<op, args, loc>>

BinaryColsNext == CbcCheck \/ CbcColumn \/ CbcDrop

SpecBinaryCols == CbcInit /\ [][BinaryColsNext]_vars

CbcFinished == op = "convert_to_binary_cols" /\ pc = "done"

\* the generated column names, one for each target name
CbcGenerated ==
    {binary_col_name(args.col, args.targ_vals[k]) : k \in DOMAIN args.targ_vals}

\* C16: when every value of df[col] is in vals, then in the returned frame,
\* for every row, exactly one of the generated '{col}${targ}' columns equals
\* 1 (the one paired with that row's original value) and all the other
\* generated columns equal 0.
C16_ExactlyOneBinaryColumn ==
    (CbcFinished /\ Range(args.df[args.col]) \subseteq Range(args.vals)) =>
        /\ ret.kind = "return"
        /\ DOMAIN ret.val = CbcGenerated
        /\ \A r \in DOMAIN args.df[args.col] :
              \A k \in DOMAIN args.vals :
                  ret.val[binary_col_name(args.col, args.targ_vals[k])][r] =
                      IF args.df[args.col][r] = args.vals[k] THEN PyNum(1) ELSE PyNum(0)

C16_Witness ==
    /\ CbcFinished /\ ret.kind = "return"
    /\ Len(args.vals) = MaxVals
    /\ Len(args.df[args.col]) = MaxRows
    /\ args.df[args.col][1] # args.df[args.col][2]
    /\ \E c \in DOMAIN ret.val : ret.val[c][1] = PyNum(1) /\ ret.val[c][2] = PyNum(0)

(***************************************************************************)
(* util/str_util.create_time_str                                           *)
(***************************************************************************)
\* '{:02d}'.format(n): at least two digits, padded with a zero
format_02d(n) == IF n < 10 THEN <<"0">> \o num_chars(n) ELSE num_chars(n)

\* datetime.datetime.now(): some moments of the years the program runs in
NowInputs ==
    [year : {1999, 2000, 2019, 2026}, month : {1, 9, 12}, day : {1, 31},
     hour : {0, 9, 23}, minute : {0, 59}, second : {0, 7, 59}]

\* lines 206-210
create_time_str(now) ==
    format_02d(now.year) \o format_02d(now.month) \o format_02d(now.day)
      \o <<"_">>
      \o format_02d(now.hour) \o format_02d(now.minute) \o format_02d(now.second)

TimeStrInit ==
    /\ op = "create_time_str"
    /\ args = NoLoc
    /\ loc = NoLoc
    /\ pc = "start"
    /\ ret = Pending

\* line 206: the clock is read
TimeStrNow ==
    /\ op = "create_time_str" /\ pc = "start"
    /\ \E now \in NowInputs : loc' = [now |-> now]
    /\ pc' = "format"
    /\ UNCHANGED <<op, args, ret>>

\* lines 207-210
TimeStrFormat ==
    /\ op = "create_time_str" /\ pc = "format"
    /\ ret' = Return(create_time_str(loc.now))
    /\ pc' = "done"
    /\ UNCHANGED <<op, args, loc>>

TimeStrNext == TimeStrNow \/ TimeStrFormat

SpecTimeStr == TimeStrInit /\ [][TimeStrNext]_vars

TimeStrFinished == op = "create_time_str" /\ pc = "done"

\* C17: create_time_str() returns a string of the form YYMMDD_HHMMSS for the
\* current time: two-digit year, month and day, an underscore, then two-digit
\* hour, minute and second, 13 characters in total.
C17_TwoDigitYearStamp ==
    TimeStrFinished =>
        /\ Len(ret.val) = 13
        /\ ret.val = format_02d(loc.now.year % 100) \o format_02d(loc.now.month)
                       \o format_02d(loc.now.day) \o <<"_">>
                       \o format_02d(loc.now.hour) \o format_02d(loc.now.minute)
                       \o format_02d(loc.now.second)

\* what is returned is YYYYMMDD_HHMMSS: the year in full, 15 characters
TimeStrFullYear ==
    TimeStrFinished =>
        /\ Len(ret.val) = 15
        /\ SubSeq(ret.val, 1, 4) = num_chars(loc.now.year)
        /\ SubSeq(ret.val, 3, 15) =
              format_02d(loc.now.year % 100) \o format_02d(loc.now.month)
                \o format_02d(loc.now.day) \o <<"_">>
                \o format_02d(loc.now.hour) \o format_02d(loc.now.minute)
                \o format_02d(loc.now.second)

(***************************************************************************)
(* analysis/pup_analys.run_pup_roi_stim_corr                               *)
(***************************************************************************)
\* most sessions handed to an analysis
MaxNSess == 3

\* the StimPar bundles of a run: one stimulus type with the other type's
\* fields 'none', or both types
StimParInputs ==
    {Bundle("StimPar", [stimpar_default EXCEPT !.stimtype = PyStr("gabors"),
                           !.bri_dir = PyStr("none"), !.bri_size = PyStr("none"),
                           !.gabk = gabk]) : gabk \in {PyNum(16), PyNum(4)}}
    \cup {Bundle("StimPar", [stimpar_default EXCEPT !.stimtype = PyStr("bricks"),
                           !.gabfr = PyStr("none"), !.gabk = PyStr("none"),
                           !.gab_ori = PyStr("none"), !.bri_dir = bri_dir]) :
             bri_dir \in {PyStr("right"), PyStr("left")}}
    \cup {Bundle("StimPar", stimpar_default)}

\* line 355
stimtypes == <<"gabors", "bricks">>

\* init_stimpar(**stimpar_dict): the keys that are missing take their defaults
init_stimpar_kw(stimpar_dict) ==
    init_stimpar([f \in DOMAIN stimpar_default |->
                    IF f \in DOMAIN stimpar_dict THEN stimpar_dict[f]
                    ELSE stimpar_default[f]])

\* lines 360-363: stimpar._asdict() without the keys whose value is 'none'
drop_nones(d) ==
    [f \in {g \in DOMAIN d : d[g] # PyStr("none")} |-> d[f]]

RpsInit ==
    /\ op = "run_pup_roi_stim_corr"
    /\ \E n \in 1..MaxNSess, stimpar \in StimParInputs, datatype \in {"roi", "run"},
          parallel \in BOOLEAN :
           args = [sessions |-> [k \in 1..n |-> k], stimpar |-> stimpar,
                   datatype |-> datatype, parallel |-> parallel]
    /\ loc = NoLoc
    /\ pc = "start"
    /\ ret = Pending

\* lines 352-363: stimpar_dict is assigned only when the type is not 'both'
RpsStart ==
    /\ op = "run_pup_roi_stim_corr" /\ pc = "start"
    /\ IF args.datatype # "roi"
       THEN pc' = "done" /\ ret' = Raise("ValueError") /\ loc' = loc
       ELSE /\ pc' = "stimpars" /\ ret' = ret
            /\ loc' = [stimpar_dict |->
                          IF args.stimpar.fields.stimtype # PyStr("both")
                          THEN Bound(drop_nones(args.stimpar.fields))
                          ELSE Unbound,
                       stimpars |-> <<>>]
    /\ UNCHANGED <<op, args>>

\* lines 370-375: one pass of the loop over the two stimulus types
RpsStimpar ==
    /\ op = "run_pup_roi_stim_corr" /\ pc = "stimpars"
    /\ Len(loc.stimpars) < Len(stimtypes)
    /\ IF loc.stimpar_dict = Unbound
       THEN pc' = "done" /\ ret' = Raise("UnboundLocalError") /\ loc' = loc
       ELSE LET stimtype == stimtypes[Len(loc.stimpars) + 1]
                d == [f \in DOMAIN loc.stimpar_dict.v \cup {"stimtype"} |->
                         IF f = "stimtype" THEN PyStr(stimtype)
                         ELSE loc.stimpar_dict.v[f]]
            IN /\ pc' = pc /\ ret' = ret
               /\ loc' = [loc EXCEPT !.stimpar_dict = Bound(d),
                                     !.stimpars = Append(loc.stimpars, init_stimpar_kw(d).val)]
    /\ UNCHANGED <<op, args>>

\* lines 376-377 and 382-383
RpsBoth ==
    /\ op = "run_pup_roi_stim_corr" /\ pc = "stimpars"
    /\ Len(loc.stimpars) = Len(stimtypes)
    /\ loc' = [stimpar_dict |->
                  Bound([loc.stimpars[1].fields EXCEPT !.stimtype = PyStr("both")]),
               stimpars |-> loc.stimpars, s |-> 0, sess_roi_corrs |-> <<>>]
    /\ pc' = "sessions"
    /\ UNCHANGED <<op, args, ret>>

\* lines 384-403: one session: for each of the two bundles the per-ROI
\* correlations of pupil and ROI changes, in a pool or in a loop
RpsSession ==
    /\ op = "run_pup_roi_stim_corr" /\ pc = "sessions"
    /\ loc.s < Len(args.sessions)
    /\ LET sess == At(args.sessions, loc.s)
           stim_corrs == [k \in DOMAIN loc.stimpars |->
                             [sess |-> sess, stimtype |-> loc.stimpars[k].fields.stimtype.s,
                              per |-> "roi"]]
       IN loc' = [loc EXCEPT !.s = loc.s + 1,
                             !.sess_roi_corrs = Append(loc.sess_roi_corrs, stim_corrs)]
    /\ UNCHANGED <<op, args, pc, ret>>

\* lines 405-426: the results are gathered, plotted and saved
RpsSave ==
    /\ op = "run_pup_roi_stim_corr" /\ pc = "sessions"
    /\ loc.s = Len(args.sessions)
    /\ ret' = Return([stim_order |-> stimtypes, roi_corrs |-> loc.sess_roi_corrs,
                      stimpar |-> loc.stimpar_dict.v])
    /\ pc' = "done"
    /\ UNCHANGED <<op, args, loc>>

PupRoiNext == RpsStart \/ RpsStimpar \/ RpsBoth \/ RpsSession \/ RpsSave

SpecPupRoi == RpsInit /\ [][PupRoiNext]_vars

RpsFinished ==
    op = "run_pup_roi_stim_corr" /\ pc = "done" /\ args.datatype = "roi"

\* every session has its per-ROI correlations for gabors and for bricks
RpsBothTypesPerSession ==
    /\ ret.kind = "return"
    /\ Len(ret.val.roi_corrs) = Len(args.sessions)
    /\ \A k \in DOMAIN args.sessions :
          ret.val.roi_corrs[k] =
              <<[sess |-> args.sessions[k], stimtype |-> "gabors", per |-> "roi"],
                [sess |-> args.sessions[k], stimtype |-> "bricks", per |-> "roi"]>>

\* C18: run_pup_roi_stim_corr with datatype 'roi' computes, for each session,
\* per-ROI pupil-vs-activity-change correlations for each of the two stimulus
\* types and completes, for every stimpar.stimtype in {'gabors', 'bricks',
\* 'both'}.
C18_CompletesForEveryStimtype ==
    RpsFinished => RpsBothTypesPerSession

\* with stimpar.stimtype 'gabors' or 'bricks' the run completes as C18 says
RpsOneTypeCompletes ==
    (RpsFinished /\ args.stimpar.fields.stimtype # PyStr("both")) =>
        RpsBothTypesPerSession

(***************************************************************************)
(* extra/run_logreg.set_ctrl                                               *)
(***************************************************************************)
\* the comparison names of the logistic regressions, and 'all'
CompNames ==
    {"unexp", "AvB", "AvC", "BvC", "DvU", "Aori", "Bori", "Cori", "Dori",
     "Uori", "DoriU", "DoriA", "BCDoriA", "BCDoriU", "ABCoriD", "ABCoriU",
     "dir_all", "dir_unexp", "dir_exp", "half_right", "half_left",
     "half_diff", "all"}

\* the characters of a comparison name
comp_chars(w) ==
    CASE w = "unexp" -> <<"u", "n", "e", "x", "p">>
      [] w = "AvB" -> <<"A", "v", "B">>
      [] w = "AvC" -> <<"A", "v", "C">>
      [] w = "BvC" -> <<"B", "v", "C">>
      [] w = "DvU" -> <<"D", "v", "U">>
      [] w = "Aori" -> <<"A", "o", "r", "i">>
      [] w = "Bori" -> <<"B", "o", "r", "i">>
      [] w = "Cori" -> <<"C", "o", "r", "i">>
      [] w = "Dori" -> <<"D", "o", "r", "i">>
      [] w = "Uori" -> <<"U", "o", "r", "i">>
      [] w = "DoriU" -> <<"D", "o", "r", "i", "U">>
      [] w = "DoriA" -> <<"D", "o", "r", "i", "A">>
      [] w = "BCDoriA" -> <<"B", "C", "D", "o", "r", "i", "A">>
      [] w = "BCDoriU" -> <<"B", "C", "D", "o", "r", "i", "U">>
      [] w = "ABCoriD" -> <<"A", "B", "C", "o", "r", "i", "D">>
      [] w = "ABCoriU" -> <<"A", "B", "C", "o", "r", "i", "U">>
      [] w = "dir_all" -> <<"d", "i", "r", "_", "a", "l", "l">>
      [] w = "dir_unexp" -> <<"d", "i", "r", "_", "u", "n", "e", "x", "p">>
      [] w = "dir_exp" -> <<"d", "i", "r", "_", "e", "x", "p">>
      [] w = "half_right" -> <<"h", "a", "l", "f", "_", "r", "i", "g", "h", "t">>
      [] w = "half_left" -> <<"h", "a", "l", "f", "_", "l", "e", "f", "t">>
      [] w = "half_diff" -> <<"h", "a", "l", "f", "_", "d", "i", "f", "f">>
      [] w = "all" -> <<"a", "l", "l">>
      [] OTHER -> <<>>

\* line 100 with either substring enough
ori_with_U_either(comp) ==
    Contains(comp_chars(comp), <<"U">>) \/ Contains(comp_chars(comp), <<"o", "r", "i">>)

\* line 100: "U" in comp and "ori" in comp
ori_with_U(comp) ==
    Contains(comp_chars(comp), <<"U">>) /\ Contains(comp_chars(comp), <<"o", "r", "i">>)

SetCtrlInit ==
    /\ op = "set_ctrl"
    /\ \E ctrl \in BOOLEAN, comp \in CompNames : args = [ctrl |-> ctrl, comp |-> comp]
    /\ loc = NoLoc
    /\ pc = "start"
    /\ ret = Pending

\* lines 100-102
SetCtrlDisable ==
    /\ op = "set_ctrl" /\ pc = "start"
    /\ loc' = [ctrl |-> IF args.comp \in {"unexp", "DvU", "dir_unexp"} \/ ori_with_U(args.comp)
                        THEN FALSE ELSE args.ctrl]
    /\ pc' = "check"
    /\ UNCHANGED <<op, args, ret>>

\* lines 104-107
SetCtrlReturn ==
    /\ op = "set_ctrl" /\ pc = "check"
    /\ ret' = IF args.comp = "all" THEN Raise("ValueError") ELSE Return(loc.ctrl)
    /\ pc' = "done"
    /\ UNCHANGED <<op, args, loc>>

SetCtrlNext == SetCtrlDisable \/ SetCtrlReturn

SpecSetCtrl == SetCtrlInit /\ [][SetCtrlNext]_vars

SetCtrlFinished == op = "set_ctrl" /\ pc = "done"

\* the comparison names that contain both 'U' and 'ori'
CompsWithUAndOri == {"Uori", "DoriU", "BCDoriU", "ABCoriU"}

\* C19: set_ctrl(ctrl, comp) returns False for comp in {'unexp', 'DvU',
\* 'dir_unexp'} and for every comp containing both 'U' and 'ori'; for every
\* other comp except 'all' it returns the input ctrl unchanged, so it never
\* turns a False ctrl into True.
C19_CtrlOnlyDisabled ==
    (SetCtrlFinished /\ args.comp # "all") =>
        /\ ret.kind = "return"
        /\ args.comp \in {"unexp", "DvU", "dir_unexp"} \cup CompsWithUAndOri =>
              ret.val = FALSE
        /\ args.comp \notin {"unexp", "DvU", "dir_unexp"} \cup CompsWithUAndOri =>
              ret.val = args.ctrl
        /\ ~args.ctrl => ret.val = FALSE

C19_Witness ==
    /\ SetCtrlFinished
    /\ args.ctrl /\ args.comp = "Dori"
    /\ ret = Return(TRUE)

\* ---------------------------------------------------------------------------
\* run_glms and run_glm (src/extra/extra_analysis/glm.py): where the
\* explained-variance fits are run in parallel
\* ---------------------------------------------------------------------------

MaxGlmSess == 2
MaxGlmRois == 2

\* the sessions handed to run_glms, by position
glm_sessions(n) == [i \in 1..n |-> i]

\* lines 507-514: one batch per session for per-ROI fits, one batch otherwise
sess_batches_of(each_roi, sessions) == IF each_roi THEN sessions ELSE <<sessions>>

\* lines 517-519
parallel_here(parallel, each_roi, sess_batches) ==
    parallel /\ ~each_roi /\ Len(sess_batches) # 1

\* line 520 without the test of parallel
parallel_after_unrequested(parallel, here) == IF ~here THEN TRUE ELSE FALSE

\* line 520
parallel_after(parallel, here) == IF parallel /\ ~here THEN TRUE ELSE FALSE

\* lines 438-450 of run_glm: the pooled columns, then one entry per ROI
n_roi_cols(each_roi, n_rois) == IF each_roi THEN 1 + n_rois ELSE 1

\* line 459 of run_glm: the per-ROI fits go to a worker pool
roi_pool(parallel, each_roi, n_rois) ==
    parallel /\ each_roi /\ n_roi_cols(each_roi, n_rois) > 1

GlmsInit ==
    /\ op = "run_glms"
    /\ \E parallel \in BOOLEAN, each_roi \in BOOLEAN, n_sess \in 0..MaxGlmSess, n_rois \in 0..MaxGlmRois :
          args = [parallel |-> parallel, each_roi |-> each_roi,
                  sessions |-> glm_sessions(n_sess), n_rois |-> n_rois]
    /\ loc = NoLoc
    /\ pc = "start"
    /\ ret = Pending

\* lines 507-514
GlmsBatches ==
    /\ op = "run_glms" /\ pc = "start"
    /\ loc' = [glm_type |-> IF args.each_roi THEN "per_ROI_per_sess" ELSE "across_sess",
               sess_batches |-> sess_batches_of(args.each_roi, args.sessions)]
    /\ pc' = "flags"
    /\ UNCHANGED <<op, args, ret>>

\* lines 517-523
GlmsFlags ==
    /\ op = "run_glms" /\ pc = "flags"
    /\ LET here == parallel_here(args.parallel, args.each_roi, loc.sess_batches)
       IN loc' = [glm_type |-> loc.glm_type, sess_batches |-> loc.sess_batches,
                  parallel_here |-> here,
                  parallel_after |-> parallel_after(args.parallel, here),
                  runs |-> <<>>]
    /\ pc' = "wrap"
    /\ UNCHANGED <<op, args, ret>>

\* lines 524-526 and run_glm, lines 428-478: run_glm on the next batch, with
\* the flag of the batch map and whether the fits of this batch use a pool
GlmsRunGlm ==
    /\ op = "run_glms" /\ pc = "wrap"
    /\ Len(loc.runs) < Len(loc.sess_batches)
    /\ loc' = [loc EXCEPT !.runs = Append(@,
                  [batch_pool |-> loc.parallel_here,
                   roi_pool |-> roi_pool(loc.parallel_after, args.each_roi, args.n_rois)])]
    /\ UNCHANGED <<op, args, pc, ret>>

\* lines 528-555: the results of every batch are gathered and saved
GlmsSave ==
    /\ op = "run_glms" /\ pc = "wrap"
    /\ Len(loc.runs) = Len(loc.sess_batches)
    /\ ret' = Return(None)
    /\ pc' = "done"
    /\ UNCHANGED <<op, args, loc>>

GlmsNext == GlmsBatches \/ GlmsFlags \/ GlmsRunGlm \/ GlmsSave

SpecGlms == GlmsInit /\ [][GlmsNext]_vars

GlmsFlagsSet == op = "run_glms" /\ pc \in {"wrap", "done"}

\* C20: in run_glms, for every combination of the parallel flag,
\* glmpar.each_roi and number of sessions, the flag used for the
\* session-batch map (parallel_here) and the flag handed to run_glm
\* (parallel_after) are never both True, both are False when parallel is not
\* requested, and no run_glm call fits in a pool inside a pooled batch map.
C20_OneLevelInParallel ==
    GlmsFlagsSet =>
        /\ ~(loc.parallel_here /\ loc.parallel_after)
        /\ ~args.parallel => (~loc.parallel_here /\ ~loc.parallel_after)
        /\ \A k \in 1..Len(loc.runs) : ~(loc.runs[k].batch_pool /\ loc.runs[k].roi_pool)

C20_Witness ==
    /\ op = "run_glms" /\ pc = "done"
    /\ args.parallel /\ args.each_roi
    /\ Len(args.sessions) = 2
    /\ loc.parallel_after /\ ~loc.parallel_here
    /\ Len(loc.runs) = 2
    /\ loc.runs[2].roi_pool

\* the batch map itself is never run in parallel: without each_roi there is
\* a single batch
GlmsBatchMapSequential == GlmsFlagsSet => ~loc.parallel_here

\* C29: in run_glms, when parallel is requested and there is more than one
\* session batch, the work is parallelized at the session-batch level:
\* parallel_here is True and the flag handed to run_glm is False.
C29_BatchLevelWhenSeveralBatches ==
    (GlmsFlagsSet /\ args.parallel /\ Len(loc.sess_batches) > 1) =>
        (loc.parallel_here /\ ~loc.parallel_after)

\* with parallel requested the flag always goes down to run_glm
GlmsParallelGoesDown == (GlmsFlagsSet /\ args.parallel) => loc.parallel_after

(***************************************************************************)
(* logreg: get_rundir, get_compdir_dict, single_run and run_regr           *)
(***************************************************************************)

MaxRunN == 11
MaxRuns == 2

\* '{}'.format(uniqueid) for a string or a number
uniqueid_chars(uniqueid) == IF uniqueid.t = "num" THEN num_chars(uniqueid.n) ELSE uniqueid.c

\* lines 89-94 with the run number left out of the name
get_rundir_no_run_n(run_n, uniqueid) ==
    IF uniqueid = None THEN <<"r", "u", "n", "_">>
    ELSE uniqueid_chars(uniqueid) \o <<"_">>

\* lines 89-94
get_rundir(run_n, uniqueid) ==
    IF uniqueid = None THEN <<"r", "u", "n", "_">> \o num_chars(run_n)
    ELSE uniqueid_chars(uniqueid) \o <<"_">> \o num_chars(run_n)

\* '_'.join(parts)
RECURSIVE join_chars(_, _)
join_chars(parts, sep) ==
    IF Len(parts) = 0 THEN <<>>
    ELSE IF Len(parts) = 1 THEN parts[1]
    ELSE parts[1] \o <<sep>> \o join_chars(Tail(parts), sep)

\* lines 133-147
get_compdir_dict(rundir) ==
    LET parts == split_chars(rundir, "/")
        param_str == parts[Len(parts) - 1]
        run_str == parts[Len(parts)]
        params == get_params_from_str(param_str)
        subs == split_chars(run_str, "_")
        run_n == IF Contains(run_str, <<"r", "u", "n">>)
                 THEN (IF Len(subs) < 2 THEN Raise("IndexError") ELSE int_of_chars(subs[2]))
                 ELSE int_of_chars(subs[Len(subs)])
        uniqueid == IF Contains(run_str, <<"r", "u", "n">>) THEN None
                    ELSE PyChars(join_chars(SubSeq(subs, 1, Len(subs) - 1), "_"))
    IN IF Len(parts) < 2 THEN Raise("IndexError")
       ELSE IF params.kind = "raise" THEN params
       ELSE IF run_n.kind = "raise" THEN run_n
       ELSE Return([params |-> params.val, uniqueid |-> uniqueid, run_n |-> run_n.val])

\* the run identifiers: none, a time stamp, a word, a word holding 'run', a
\* name starting with 'run_', and a number
UniqueIdInputs ==
    {None, PyChars(<<"2", "6", "_", "1", "4">>), PyChars(<<"a", "b">>),
     PyChars(<<"r", "e", "r", "u", "n">>), PyChars(<<"r", "u", "n", "_", "a">>), PyNum(7)}

\* the session and comparison of the runs: mouse 1, session 1, Gabors
RegrParams(shuffle) ==
    [mouse_n |-> 1, sess_n |-> 1, layer |-> "soma", fluor |-> "dff", scale |-> TRUE,
     stimtype |-> "gabors", bri_dir |-> PyStr("right"), bri_size |-> PyNum(128),
     gabk |-> PyNum(16), comp |-> PyStr("surp"), shuffle |-> shuffle]

\* os.path.join(compdir, rundir)
path_join(a, b) == a \o <<"/">> \o b

RundirInit ==
    /\ op = "get_rundir"
    /\ \E run_n \in 0..MaxRunN, uniqueid \in UniqueIdInputs, shuffle \in BOOLEAN :
          args = [run_n |-> run_n, uniqueid |-> uniqueid, shuffle |-> shuffle]
    /\ loc = NoLoc
    /\ pc = "start"
    /\ ret = Pending

\* get_rundir(run_n, uniqueid), under the comparison directory
RundirFormat ==
    /\ op = "get_rundir" /\ pc = "start"
    /\ loc' = [rundir |-> path_join(get_analysdir(RegrParams(args.shuffle), "file"),
                                    get_rundir(args.run_n, args.uniqueid))]
    /\ pc' = "parse"
    /\ UNCHANGED <<op, args, ret>>

\* get_compdir_dict(rundir)
RundirParse ==
    /\ op = "get_rundir" /\ pc = "parse"
    /\ ret' = get_compdir_dict(loc.rundir)
    /\ pc' = "done"
    /\ UNCHANGED <<op, args, loc>>

RundirNext == RundirFormat \/ RundirParse

SpecRundir == RundirInit /\ [][RundirNext]_vars

RundirFinished == op = "get_rundir" /\ pc = "done"

\* C30: for every run number run_n >= 0 and every uniqueid (None, or any
\* string or number usable as a run identifier), get_compdir_dict applied to
\* a path whose last component is get_rundir(run_n, uniqueid) recovers the
\* same run_n and the same uniqueid.
C30_RundirRoundTrip ==
    RundirFinished =>
        /\ ret.kind = "return"
        /\ ret.val.run_n = PyNum(args.run_n)
        /\ ret.val.uniqueid = args.uniqueid

\* the round trip holds for no identifier and for strings without 'run'
RundirPlainIdsRoundTrip ==
    (/\ RundirFinished
     /\ \/ args.uniqueid = None
        \/ args.uniqueid.t = "str" /\ ~Contains(args.uniqueid.c, <<"r", "u", "n">>)) =>
        /\ ret.kind = "return"
        /\ ret.val.run_n = PyNum(args.run_n)
        /\ ret.val.uniqueid = args.uniqueid

\* run_regr (lines 804-822) and single_run (lines 617-689): the runs of one
\* session.  loc.tasks holds the position of every single_run task of the
\* current set of runs, loc.files every file written with the task that
\* wrote it.

RegrInit ==
    /\ op = "run_regr"
    /\ \E uniqueid \in UniqueIdInputs, n_reg \in 0..MaxRuns, n_shuff \in 0..MaxRuns, parallel \in BOOLEAN :
          args = [uniqueid |-> uniqueid, n_reg |-> n_reg, n_shuff |-> n_shuff,
                  parallel |-> parallel]
    /\ loc = [k |-> 1, files |-> {}, shuffle |-> FALSE, compdir |-> <<>>,
              tasks |-> <<>>, dirname |-> <<>>]
    /\ pc = "sets"
    /\ ret = Pending

\* lines 804-812: the next of the regular and the shuffled set of runs
RegrSet ==
    /\ op = "run_regr" /\ pc = "sets" /\ loc.k <= 2
    /\ LET runs == IF loc.k = 1 THEN args.n_reg ELSE args.n_shuff
           shuffle == (loc.k = 2)
       IN loc' = [k |-> loc.k, files |-> loc.files, shuffle |-> shuffle,
                  compdir |-> get_analysdir(RegrParams(shuffle), "file"),
                  tasks |-> [run \in 0..(runs - 1) |-> "start"],
                  dirname |-> [run \in 0..(runs - 1) |-> <<>>]]
    /\ pc' = "runs"
    /\ UNCHANGED <<op, args, ret>>

\* lines 814-822: in the pool any task may step, in the loop only the first
\* unfinished one
RegrMayStep(run) ==
    args.parallel \/ \A other \in DOMAIN loc.tasks : other < run => loc.tasks[other] = "done"

\* single_run, lines 617-625: the directory of the run is created
SingleRunDir ==
    \E run \in DOMAIN loc.tasks :
        /\ op = "run_regr" /\ pc = "runs"
        /\ loc.tasks[run] = "start" /\ RegrMayStep(run)
        /\ loc' = [loc EXCEPT !.tasks[run] = "dir",
                              !.dirname[run] = path_join(loc.compdir, get_rundir(run, args.uniqueid))]
        /\ UNCHANGED <<op, args, pc, ret>>

\* single_run, lines 626-666: hyperparameters and trace statistics are saved
SingleRunStats ==
    \E run \in DOMAIN loc.tasks :
        /\ op = "run_regr" /\ pc = "runs"
        /\ loc.tasks[run] = "dir" /\ RegrMayStep(run)
        /\ loc' = [loc EXCEPT !.tasks[run] = "stats",
                              !.files = @ \cup {[path |-> <<loc.dirname[run], name>>, by |-> <<loc.shuffle, run>>] :
                                                    name \in {"hyperparameters.json", "tr_stats.json"}}]
        /\ UNCHANGED <<op, args, pc, ret>>

\* single_run, lines 668-689: the model is fitted and the scores are saved
SingleRunScores ==
    \E run \in DOMAIN loc.tasks :
        /\ op = "run_regr" /\ pc = "runs"
        /\ loc.tasks[run] = "stats" /\ RegrMayStep(run)
        /\ loc' = [loc EXCEPT !.tasks[run] = "done",
                              !.files = @ \cup {[path |-> <<loc.dirname[run], "scores_df.csv">>,
                                                 by |-> <<loc.shuffle, run>>]}]
        /\ UNCHANGED <<op, args, pc, ret>>

\* lines 816-822: every run of the set has returned
RegrSetDone ==
    /\ op = "run_regr" /\ pc = "runs"
    /\ \A run \in DOMAIN loc.tasks : loc.tasks[run] = "done"
    /\ loc' = [loc EXCEPT !.k = @ + 1, !.tasks = <<>>, !.dirname = <<>>]
    /\ pc' = "sets"
    /\ UNCHANGED <<op, args, ret>>

\* line 822: both sets are through
RegrReturn ==
    /\ op = "run_regr" /\ pc = "sets" /\ loc.k > 2
    /\ ret' = Return(None)
    /\ pc' = "done"
    /\ UNCHANGED <<op, args, loc>>

RegrNext ==
    RegrSet \/ SingleRunDir \/ SingleRunStats \/ SingleRunScores \/ RegrSetDone \/ RegrReturn

SpecRegr == RegrInit /\ [][RegrNext]_vars

\* C21: within one run_regr invocation with parallel runs, any two
\* concurrently executing single_run tasks (distinct run_n under the same
\* comparison directory and uniqueid) create and write to distinct per-run
\* directories given by get_rundir, so no two tasks ever write to the same
\* file path.
C21_RunsWriteDisjointPaths ==
    op = "run_regr" =>
        /\ \A f \in loc.files, g \in loc.files : f.path = g.path => f.by = g.by
        /\ pc = "runs" =>
              \A r1 \in DOMAIN loc.tasks, r2 \in DOMAIN loc.tasks :
                  (r1 # r2 /\ loc.tasks[r1] # "start" /\ loc.tasks[r2] # "start") =>
                      loc.dirname[r1] # loc.dirname[r2]

\* two runs of the pool are both between their first and last write
C21_Witness ==
    /\ op = "run_regr" /\ pc = "runs" /\ args.parallel
    /\ args.uniqueid = PyChars(<<"2", "6", "_", "1", "4">>)
    /\ DOMAIN loc.tasks = {0, 1}
    /\ loc.tasks[0] = "stats" /\ loc.tasks[1] = "stats"
    /\ Cardinality(loc.files) >= 4

(***************************************************************************)
(* sess_util/sess_sync_util: get_stim_frames, the check of the stimulus    *)
(* dataframe and the saving of the pickle                                  *)
(***************************************************************************)

MaxDfRows == 3
MaxDfFrame == 3

\* the rows of stim_df as built at lines 427-464: the two-photon frames
\* where each segment starts and ends
SegRows == {r \in [start_frame : 0..MaxDfFrame, end_frame : 0..MaxDfFrame] : r.start_frame <= r.end_frame}

\* np.sort of a column
np_sort(col) == SortSeq(col, LAMBDA a, b : a < b)

\* lines 467-468 with the columns compared row by row, unsorted
overlap_unsorted(stim_df) ==
    LET starts == [k \in DOMAIN stim_df |-> stim_df[k].start_frame]
        ends   == [k \in DOMAIN stim_df |-> stim_df[k].end_frame]
    IN \E k \in 1..(Len(stim_df) - 1) : starts[k + 1] - ends[k] < 0

\* lines 467-468
overlap(stim_df) ==
    LET starts == np_sort([k \in DOMAIN stim_df |-> stim_df[k].start_frame])
        ends   == np_sort([k \in DOMAIN stim_df |-> stim_df[k].end_frame])
    IN \E k \in 1..(Len(stim_df) - 1) : starts[k + 1] - ends[k] < 0

GsfInit ==
    /\ op = "get_stim_frames"
    /\ \E n \in 1..MaxDfRows : \E stim_df \in [1..n -> SegRows] : args = [stim_df |-> stim_df]
    /\ loc = [saved |-> Unbound]
    /\ pc = "check"
    /\ ret = Pending

\* lines 467-471
GsfCheck ==
    /\ op = "get_stim_frames" /\ pc = "check"
    /\ IF overlap(args.stim_df)
       THEN ret' = Raise("ValueError") /\ pc' = "done"
       ELSE ret' = ret /\ pc' = "save"
    /\ UNCHANGED <<op, args, loc>>

\* lines 474-480: the dictionary is saved, or the save fails
GsfSave ==
    /\ op = "get_stim_frames" /\ pc = "save"
    /\ loc' = [saved |-> Bound([stim_df |-> args.stim_df, stim_align |-> "stimulus_alignment"])]
    /\ ret' \in {Return(None), Raise("OSError")}
    /\ pc' = "done"
    /\ UNCHANGED <<op, args>>

StimFramesNext == GsfCheck \/ GsfSave

SpecStimFrames == GsfInit /\ [][StimFramesNext]_vars

GsfFinished == op = "get_stim_frames" /\ pc = "done"

\* two rows whose half-open ranges [start_frame, end_frame) share a frame
RowsIntersect(stim_df) ==
    \E i \in DOMAIN stim_df, j \in DOMAIN stim_df :
        /\ i # j
        /\ \E fr \in 0..MaxDfFrame :
              /\ stim_df[i].start_frame <= fr /\ fr < stim_df[i].end_frame
              /\ stim_df[j].start_frame <= fr /\ fr < stim_df[j].end_frame

\* C22: get_stim_frames writes the output pickle only after the overlap
\* validation has passed: it raises, without writing, if and only if some
\* two rows of stim_df have intersecting half-open two-photon frame ranges
\* [start_frame, end_frame), and otherwise persists {stim_df, stim_align}.
C22_SavedIffNoRowsIntersect ==
    GsfFinished =>
        /\ (ret = Raise("ValueError") /\ loc.saved = Unbound) <=> RowsIntersect(args.stim_df)
        /\ ~RowsIntersect(args.stim_df) =>
              loc.saved = Bound([stim_df |-> args.stim_df, stim_align |-> "stimulus_alignment"])

C22_Witness ==
    /\ GsfFinished
    /\ Len(args.stim_df) = 3
    /\ ~RowsIntersect(args.stim_df)
    /\ args.stim_df[1].end_frame > args.stim_df[2].start_frame
    /\ ret = Return(None) /\ loc.saved # Unbound

(***************************************************************************)
(* extra_analysis/glm: run_explained_variance and scale_across_rois        *)
(***************************************************************************)
\* A dataframe of responses is held by its columns and by how it was
\* obtained: the data as passed in ("given"), or the pooled response with
\* the dataframe it was pooled from and, per session, the rows the scale
\* factors were fitted on and the rows they were applied to.

MaxGlmRows == 3
MaxYCols == 3

\* the response columns 'roi_data_<n>' of n ROIs, as passed in
given_y_df(n) == [columns |-> [i \in 1..n |-> i - 1], how |-> "given"]

\* the ways KFold(k, shuffle=True) can split n rows: the fold each row is
\* tested in, every fold with at least one row
KFoldSplits(n, k) == {f \in [0..(n - 1) -> 1..k] : \A j \in 1..k : \E r \in 0..(n - 1) : f[r] = j}

\* lines 353-377
scale_across_rois(y_df, tr_idx, sessids) ==
    [columns |-> <<"roi_data">>, how |-> "scaled", from |-> y_df,
     facts |-> [val \in Range(sessids) |->
                  LET all_idx_set == {r \in 0..(Len(sessids) - 1) : At(sessids, r) = val}
                  IN [fitted_on |-> all_idx_set \cap tr_idx,
                      applied_to |-> all_idx_set \ tr_idx]]]

RevInit ==
    /\ op = "run_explained_variance"
    /\ \E n \in 2..MaxGlmRows, n_cols \in 1..MaxYCols :
          \E k \in 2..n, sessids \in [1..n -> {1, 2}] :
             \E split \in KFoldSplits(n, k) :
                args = [y_df |-> given_y_df(n_cols), n_rows |-> n, k |-> k,
                        sessids |-> sessids, split |-> split]
    /\ loc = NoLoc
    /\ pc = "start"
    /\ ret = Pending

\* lines 388-406
RevStart ==
    /\ op = "run_explained_variance" /\ pc = "start"
    /\ loc' = [y_df |-> args.y_df, all_rois |-> Len(args.y_df.columns) > 1,
               fold |-> 1, scaled |-> <<>>, full |-> <<>>]
    /\ pc' = "folds"
    /\ UNCHANGED <<op, args, ret>>

\* lines 407-415: one fold; loc.scaled keeps what scale_across_rois was
\* given in the fold, loc.full the response and rows the models were fitted on
RevFold ==
    /\ op = "run_explained_variance" /\ pc = "folds"
    /\ loc.fold <= args.k
    /\ LET test_idx == {r \in 0..(args.n_rows - 1) : args.split[r] = loc.fold}
           tr_idx == (0..(args.n_rows - 1)) \ test_idx
           y_df == IF loc.all_rois THEN scale_across_rois(loc.y_df, tr_idx, args.sessids)
                   ELSE loc.y_df
       IN loc' = [y_df |-> y_df, all_rois |-> loc.all_rois, fold |-> loc.fold + 1,
                  scaled |-> IF loc.all_rois
                             THEN Append(loc.scaled, [y_df |-> loc.y_df, tr_idx |-> tr_idx])
                             ELSE loc.scaled,
                  full |-> Append(loc.full, [y_df |-> y_df, tr_idx |-> tr_idx, test_idx |-> test_idx])]
    /\ UNCHANGED <<op, args, pc, ret>>

\* lines 418-424
RevReturn ==
    /\ op = "run_explained_variance" /\ pc = "folds"
    /\ loc.fold > args.k
    /\ ret' = Return(PyNum(Len(loc.full)))
    /\ pc' = "done"
    /\ UNCHANGED <<op, args, loc>>

ExplVarNext == RevStart \/ RevFold \/ RevReturn

SpecExplVar == RevInit /\ [][ExplVarNext]_vars

RevInFolds == op = "run_explained_variance" /\ pc \in {"folds", "done"}

\* the pooled response of a fold as it is meant to be: pooled from the
\* original columns, factors fitted on the fold's training rows of each
\* session and applied to its test rows
PooledFromOriginal(y, tr_idx, test_idx) ==
    /\ y.how = "scaled"
    /\ y.from = args.y_df
    /\ \A val \in DOMAIN y.facts :
          /\ y.facts[val].fitted_on \subseteq tr_idx
          /\ y.facts[val].applied_to \subseteq test_idx
    /\ UNION {y.facts[val].fitted_on : val \in DOMAIN y.facts} = tr_idx
    /\ UNION {y.facts[val].applied_to : val \in DOMAIN y.facts} = test_idx

\* C23: in run_explained_variance with more than one ROI column, in every
\* one of the k folds the pooled response passed to the model fits is
\* computed by scale_across_rois from the original multi-ROI y_df, with
\* scale factors fitted on that fold's training rows only and applied to
\* that fold's test rows; the input given to scale_across_rois is the same
\* in every fold and does not depend on the output of an earlier fold.
C23_EveryFoldScalesOriginal ==
    (RevInFolds /\ Len(args.y_df.columns) > 1) =>
        /\ \A f \in DOMAIN loc.full :
              PooledFromOriginal(loc.full[f].y_df, loc.full[f].tr_idx, loc.full[f].test_idx)
        /\ \A f \in DOMAIN loc.scaled : loc.scaled[f].y_df = args.y_df

\* the first fold is scaled from the original columns, and every fold is
\* fitted on its training rows and applied to its test rows
RevFirstFoldScalesOriginal ==
    (RevInFolds /\ Len(args.y_df.columns) > 1) =>
        /\ Len(loc.full) >= 1 =>
              PooledFromOriginal(loc.full[1].y_df, loc.full[1].tr_idx, loc.full[1].test_idx)
        /\ \A f \in DOMAIN loc.full :
              /\ loc.full[f].y_df.how = "scaled"
              /\ \A val \in DOMAIN loc.full[f].y_df.facts :
                    /\ loc.full[f].y_df.facts[val].fitted_on \subseteq loc.full[f].tr_idx
                    /\ loc.full[f].y_df.facts[val].applied_to \subseteq loc.full[f].test_idx

\* every later fold is scaled from the output of the fold before it
RevLaterFoldsScaleEarlierOutput ==
    (RevInFolds /\ Len(args.y_df.columns) > 1) =>
        \A f \in DOMAIN loc.scaled : f > 1 => loc.scaled[f].y_df = loc.full[f - 1].y_df

(***************************************************************************)
(* extra_analysis/glm: run_glm, the column groups and their order          *)
(***************************************************************************)
\* A column 'roi_data_<n>' is held by its ROI number n.  A column group is
\* a list of columns; the first group holds every ROI column and is the
\* pooled one.

MaxRoiCols == 5

\* the orders in which the ROI columns 0..n-1 of a dataframe can come
ColumnOrders(n) == {q \in [1..n -> 0..(n - 1)] : \A i \in 1..n, j \in 1..n : i # j => q[i] # q[j]}

\* np.argsort: the positions, counted from 0, in ascending order of value
np_argsort(s) ==
    SortSeq([k \in 1..Len(s) |-> k - 1],
            LAMBDA a, b : At(s, a) < At(s, b) \/ (At(s, a) = At(s, b) /\ a < b))

\* some_list[:n]
py_head(s, n) == SubSeq(s, 1, IF Len(s) < n THEN Len(s) ELSE n)

\* lines 438-450: roi_cols and roi_nbrs before the test version is cut
sorted_col_groups(columns, each_roi) ==
    LET roi_nbrs == <<-1>> \o (IF each_roi THEN columns ELSE <<>>)
        indiv_roi_cols == [k \in DOMAIN columns |-> <<columns[k]>>]
        sorting == np_argsort(roi_nbrs)
        resort == each_roi /\ \A k \in DOMAIN sorting : sorting[k] # k - 1
    IN IF ~each_roi THEN Return([roi_cols |-> <<columns>>, roi_nbrs |-> roi_nbrs])
       ELSE IF ~resort
       THEN Return([roi_cols |-> <<columns>> \o indiv_roi_cols, roi_nbrs |-> roi_nbrs])
       ELSE IF \E k \in DOMAIN sorting : sorting[k] >= Len(indiv_roi_cols)
       THEN Raise("IndexError")
       ELSE Return([roi_cols |-> <<columns>> \o [k \in DOMAIN sorting |-> At(indiv_roi_cols, sorting[k])],
                    roi_nbrs |-> [k \in DOMAIN sorting |-> At(roi_nbrs, sorting[k])]])

\* lines 454-456 with the test version cut to 5 groups
col_groups_5(columns, each_roi, test) ==
    LET g == sorted_col_groups(columns, each_roi)
    IN IF g.kind = "raise" \/ ~test THEN g
       ELSE Return([roi_cols |-> py_head(g.val.roi_cols, 5), roi_nbrs |-> py_head(g.val.roi_nbrs, 5)])

\* lines 454-456 with roi_nbrs left uncut in the test version
col_groups_nbrs_uncut(columns, each_roi, test) ==
    LET g == sorted_col_groups(columns, each_roi)
    IN IF g.kind = "raise" \/ ~test THEN g
       ELSE Return([roi_cols |-> py_head(g.val.roi_cols, 4), roi_nbrs |-> g.val.roi_nbrs])

\* lines 438-456: roi_cols and roi_nbrs
col_groups(columns, each_roi, test) ==
    LET g == sorted_col_groups(columns, each_roi)
    IN IF g.kind = "raise" \/ ~test THEN g
       ELSE Return([roi_cols |-> py_head(g.val.roi_cols, 4), roi_nbrs |-> py_head(g.val.roi_nbrs, 4)])

\* the result of run_explained_variance(x_df, full_df[cols], ...), held by
\* the columns it was computed for
expl_var_of(cols) == [cols |-> cols]

GlmInit ==
    /\ op = "run_glm"
    /\ \E n \in 0..MaxRoiCols, each_roi \in BOOLEAN, test \in BOOLEAN, parallel \in BOOLEAN :
          \E columns \in ColumnOrders(n) :
             args = [columns |-> columns, each_roi |-> each_roi, test |-> test,
                     parallel |-> parallel]
    /\ loc = NoLoc
    /\ pc = "start"
    /\ ret = Pending

\* lines 433-459: the groups, and the choice of the pool or the loop
GlmStart ==
    /\ op = "run_glm" /\ pc = "start"
    /\ LET g == col_groups(args.columns, args.each_roi, args.test)
       IN IF g.kind = "raise"
          THEN ret' = g /\ pc' = "done" /\ loc' = loc
          ELSE /\ ret' = ret
               /\ loc' = [roi_cols |-> g.val.roi_cols, roi_nbrs |-> g.val.roi_nbrs,
                          outs |-> [k \in DOMAIN g.val.roi_cols |-> Unbound]]
               /\ pc' = IF args.parallel /\ args.each_roi /\ Len(g.val.roi_cols) > 1
                        THEN "pool" ELSE "loop"
    /\ UNCHANGED <<op, args>>

\* lines 462-464: a worker finishes the group at some position; the list
\* of outputs is in the order of roi_cols
GlmPoolFit ==
    /\ op = "run_glm" /\ pc = "pool"
    /\ \E c \in DOMAIN loc.roi_cols :
          /\ loc.outs[c] = Unbound
          /\ loc' = [loc EXCEPT !.outs[c] = Bound(expl_var_of(loc.roi_cols[c]))]
    /\ UNCHANGED <<op, args, pc, ret>>

\* lines 470-477: the next group of the loop
GlmLoopFit ==
    /\ op = "run_glm" /\ pc = "loop"
    /\ \E c \in DOMAIN loc.roi_cols :
          /\ loc.outs[c] = Unbound
          /\ \A b \in 1..(c - 1) : loc.outs[b] # Unbound
          /\ loc' = [loc EXCEPT !.outs[c] = Bound(expl_var_of(loc.roi_cols[c]))]
    /\ UNCHANGED <<op, args, pc, ret>>

\* lines 465 and 479-485
GlmReturn ==
    /\ op = "run_glm" /\ pc \in {"pool", "loop"}
    /\ \A c \in DOMAIN loc.roi_cols : loc.outs[c] # Unbound
    /\ ret' = Return([full |-> [c \in DOMAIN loc.outs |-> loc.outs[c].v],
                      coef_all |-> [c \in DOMAIN loc.outs |-> loc.outs[c].v],
                      coef_uni |-> [c \in DOMAIN loc.outs |-> loc.outs[c].v],
                      rois |-> loc.roi_nbrs])
    /\ pc' = "done"
    /\ UNCHANGED <<op, args, loc>>

GlmNext == GlmStart \/ GlmPoolFit \/ GlmLoopFit \/ GlmReturn

SpecGlm == GlmInit /\ [][GlmNext]_vars

GlmFinished == op = "run_glm" /\ pc = "done"

\* the positions of the results computed for a single ROI column
GlmPerRoiResults == {i \in DOMAIN ret.val.rois : ret.val.rois[i] # -1}

\* C24: with glmpar.each_roi and glmpar.test both set and more than 4 ROI
\* columns in the data, run_glm runs the independent per-ROI
\* explained-variance analysis for exactly 4 ROIs.
C24_TestRunsFourRois ==
    (GlmFinished /\ args.each_roi /\ args.test /\ Len(args.columns) > 4) =>
        /\ ret.kind = "return"
        /\ Cardinality(GlmPerRoiResults) = 4

\* with each_roi and test and at least 3 ROI columns, 4 analyses are run:
\* the pooled one and the first 3 ROI columns of the dataframe
C24_TestRunsPooledAndThreeRois ==
    (GlmFinished /\ args.each_roi /\ args.test /\ Len(args.columns) >= 3) =>
        /\ ret.kind = "return"
        /\ Len(ret.val.full) = 4
        /\ ret.val.full[1] = expl_var_of(args.columns)
        /\ \A i \in 2..4 : ret.val.full[i] = expl_var_of(<<args.columns[i - 1]>>)
        /\ Cardinality(GlmPerRoiResults) = 3

C24_Witness ==
    /\ GlmFinished /\ args.each_roi /\ args.test /\ args.parallel
    /\ args.columns = <<0, 1, 2, 3, 4>>
    /\ ret.kind = "return" /\ ret.val.rois = <<-1, 0, 1, 2>>

\* C25: with glmpar.each_roi set, after run_glm's sorting step the
\* individual ROI column groups and roi_nbrs (following the pooled entry -1)
\* are in ascending ROI-number order, whatever the order of the 'roi_data_*'
\* columns in the dataframe.
C25_RoisAscending ==
    (GlmFinished /\ args.each_roi) =>
        /\ ret.kind = "return"
        /\ ret.val.rois[1] = -1
        /\ \A i \in 2..Len(ret.val.rois), j \in 2..Len(ret.val.rois) :
              i < j => ret.val.rois[i] < ret.val.rois[j]
        /\ \A i \in 2..Len(ret.val.rois) : ret.val.full[i] = expl_var_of(<<ret.val.rois[i]>>)

\* the ROI groups are left in the order of the columns of the dataframe
GlmRoisInColumnOrder ==
    (GlmFinished /\ args.each_roi) =>
        /\ ret.kind = "return"
        /\ \A i \in 2..Len(ret.val.rois) : ret.val.rois[i] = args.columns[i - 1]

\* C26: run_glm preserves input order in its results: for every index i,
\* expl_var['rois'][i] is the ROI number (-1 for the pooled group) of the
\* column group whose results are at position i of 'full', 'coef_all' and
\* 'coef_uni', in both the sequential and the parallel branch and with or
\* without glmpar.test truncation.
C26_ResultsInGroupOrder ==
    GlmFinished =>
        /\ ret.kind = "return"
        /\ Len(ret.val.rois) = Len(ret.val.full)
        /\ Len(ret.val.rois) = Len(ret.val.coef_all)
        /\ Len(ret.val.rois) = Len(ret.val.coef_uni)
        /\ \A i \in DOMAIN ret.val.rois :
              LET group == IF ret.val.rois[i] = -1 THEN args.columns ELSE <<ret.val.rois[i]>>
              IN /\ i = 1 <=> ret.val.rois[i] = -1
                 /\ ret.val.full[i] = expl_var_of(group)
                 /\ ret.val.coef_all[i] = expl_var_of(group)
                 /\ ret.val.coef_uni[i] = expl_var_of(group)

C26_Witness ==
    /\ GlmFinished /\ args.each_roi /\ args.parallel /\ args.test
    /\ args.columns = <<2, 0, 3, 1>>
    /\ ret.kind = "return"
    /\ ret.val.rois = <<-1, 2, 0, 3>>
    /\ ret.val.full[3] = expl_var_of(<<0>>)

(***************************************************************************)
(* gen_analys: run_traces_by_qu_lock_sess, in both generations             *)
(***************************************************************************)
\* args.gen is 1 for src/analysis/gen_analys.py and 2 for
\* src/extra/extra_analysis/gen_analys.py.

\* lines 274-276 (298-303 in the second generation)
locks_of(quintpar) ==
    IF quintpar.fields.n_quints = PyNum(1) THEN <<"surp", "reg", "surp_split">>
    ELSE <<"surp", "reg">>

\* lines 264-265: pre and post are set to 10 s; lines 282-292 of the second
\* generation: to 2 s and 6 s for bricks, 2 s and 8 s for Gabors
pre_post(gen, stimtype) ==
    IF gen = 1 THEN <<PyNum(10), PyNum(10)>>
    ELSE IF stimtype = "bricks" THEN <<PyNum(2), PyNum(6)>>
    ELSE <<PyNum(2), PyNum(8)>>

TqlInit ==
    /\ op = "run_traces_by_qu_lock_sess"
    /\ \E gen \in {1, 2}, n_quints \in 1..MaxQuints, stimtype \in {"gabors", "bricks"}, datatype \in {"roi", "run"} :
          args = [gen |-> gen, n_quints |-> n_quints, stimtype |-> stimtype,
                  datatype |-> datatype]
    /\ loc = NoLoc
    /\ pc = "start"
    /\ ret = Pending

\* lines 244-269 (264-296): the two quantile sets and the time window
TqlStart ==
    /\ op = "run_traces_by_qu_lock_sess" /\ pc = "start"
    /\ LET quintpar_one == init_quintpar([n_quints |-> PyNum(1), qu_idx |-> PyNum(0),
                                          qu_lab |-> PyStr(""), qu_lab_pr |-> PyStr("")])
           quintpar_mult == init_quintpar(quintpar_default(args.n_quints))
       IN IF quintpar_one.kind = "raise" \/ quintpar_mult.kind = "raise"
          THEN /\ ret' = (IF quintpar_one.kind = "raise" THEN quintpar_one ELSE quintpar_mult)
               /\ pc' = "done" /\ loc' = loc
          ELSE /\ loc' = [quintpars |-> <<quintpar_one.val, quintpar_mult.val>>,
                          baselines |-> <<None, pre_post(args.gen, args.stimtype)[1]>>,
                          b |-> 1, q |-> 1, l |-> 1, saved |-> <<>>]
               /\ pc' = "loop" /\ ret' = ret
    /\ UNCHANGED <<op, args>>

\* lines 278-336 (305-361): one pass of the innermost loop.  Line 279 of the
\* first generation reads the name quitnpar, which is not defined.
TqlLock ==
    /\ op = "run_traces_by_qu_lock_sess" /\ pc = "loop"
    /\ loc.b <= Len(loc.baselines)
    /\ LET quintpar == loc.quintpars[loc.q]
           locks == locks_of(quintpar)
           lock == locks[loc.l]
           last_l == loc.l = Len(locks)
           last_q == loc.q = Len(loc.quintpars)
       IN IF args.gen = 1
          THEN ret' = Raise("NameError") /\ pc' = "done" /\ loc' = loc
          ELSE /\ loc' = [loc EXCEPT
                            !.saved = Append(@, [baseline |-> loc.baselines[loc.b],
                                                 quintpar |-> quintpar, qset |-> loc.q,
                                                 lock |-> lock,
                                                 surp_lens |-> lock = "surp_split"]),
                            !.l = IF last_l THEN 1 ELSE @ + 1,
                            !.q = IF ~last_l THEN @ ELSE IF last_q THEN 1 ELSE @ + 1,
                            !.b = IF last_l /\ last_q THEN @ + 1 ELSE @]
               /\ pc' = pc /\ ret' = ret
    /\ UNCHANGED <<op, args>>

\* the loops are through
TqlReturn ==
    /\ op = "run_traces_by_qu_lock_sess" /\ pc = "loop"
    /\ loc.b > Len(loc.baselines)
    /\ ret' = Return(None)
    /\ pc' = "done"
    /\ UNCHANGED <<op, args, loc>>

TracesLockNext == TqlStart \/ TqlLock \/ TqlReturn

SpecTracesLock == TqlInit /\ [][TracesLockNext]_vars

TqlFinished == op = "run_traces_by_qu_lock_sess" /\ pc = "done"

\* the locks of a quantile set: surprise and regular onset, plus
\* 'surp_split' for a set of a single quantile
TqlExpectedLocks(qset) ==
    IF qset = 1 \/ args.n_quints = 1 THEN {"surp", "reg", "surp_split"} ELSE {"surp", "reg"}

\* one saved result per baseline, quantile set and lock, and no other
TqlOnePerCombination ==
    /\ ret = Return(None)
    /\ \A b \in 1..2, qset \in 1..2 : \A lock \in TqlExpectedLocks(qset) :
          Cardinality({k \in DOMAIN loc.saved :
                         /\ loc.saved[k].baseline = loc.baselines[b]
                         /\ loc.saved[k].qset = qset
                         /\ loc.saved[k].lock = lock}) = 1
    /\ \A k \in DOMAIN loc.saved : loc.saved[k].lock \in TqlExpectedLocks(loc.saved[k].qset)
    /\ loc.baselines[1] = None /\ loc.baselines[2] # None

\* C27: in both code generations, run_traces_by_qu_lock_sess runs to
\* completion and persists exactly one result file for each combination of
\* baseline in {None, stimpar.pre}, quantile set in {single-quantile,
\* requested n-quantile} and lock in that quantile set's lock list
\* (surprise-onset and regular-onset, plus 'surp_split' for the
\* single-quantile set).
C27_OneFilePerCombination == TqlFinished => TqlOnePerCombination

\* the second generation does as stated
TqlSecondGenerationSavesAll == (TqlFinished /\ args.gen = 2) => TqlOnePerCombination

\* the first generation stops in the first pass, with nothing saved
TqlFirstGenerationStops ==
    (TqlFinished /\ args.gen = 1) => (ret = Raise("NameError") /\ loc.saved = <<>>)

(***************************************************************************)
(* gen_analys: run_autocorr, the check that the segments of a block are    *)
(* contiguous                                                              *)
(***************************************************************************)
\* The statements are the same in src/analysis/gen_analys.py (lines 470-515)
\* and src/extra/extra_analysis/gen_analys.py (lines 497-545).

MaxSegN == 3
MaxBlockLen == 2
MaxBlocks == 2

\* the segment numbers of one block, as get_segs_by_criteria(by='block')
\* lists them
BlockInputs == {q \in SeqsOf(0..MaxSegN, 0, MaxBlockLen) : NoRepeats(q)}

\* np.diff
np_diff(s) == [k \in 1..(Len(s) - 1) |-> s[k + 1] - s[k]]

\* the builtin max(...) of a sequence
py_max(s) ==
    IF Len(s) = 0 THEN Raise("ValueError")
    ELSE Return(CHOOSE m \in Range(s) : \A v \in Range(s) : v <= m)

\* lines 479-483: the sorted segments, or the error
check_contiguous(segs) ==
    LET sorted == np_sort(segs)
        largest == py_max(np_diff(sorted))
    IN IF largest.kind = "raise" THEN largest
       ELSE IF largest.val > 1 THEN Raise("NotImplementedError")
       ELSE Return(sorted)

AcInit ==
    /\ op = "run_autocorr"
    /\ \E all_segs \in SeqsOf(BlockInputs, 0, MaxBlocks), datatype \in {"roi", "run"}, byitem \in BOOLEAN :
          args = [all_segs |-> all_segs, datatype |-> datatype, byitem |-> byitem]
    /\ loc = [sess_traces |-> <<>>, i |-> 1]
    /\ pc = "blocks"
    /\ ret = Pending

\* lines 476-499: one block
AcBlock ==
    /\ op = "run_autocorr" /\ pc = "blocks"
    /\ loc.i <= Len(args.all_segs)
    /\ LET segs == args.all_segs[loc.i]
           checked == check_contiguous(segs)
       IN IF Len(segs) = 0
          THEN loc' = [loc EXCEPT !.i = @ + 1] /\ pc' = pc /\ ret' = ret
          ELSE IF checked.kind = "raise"
          THEN ret' = checked /\ pc' = "done" /\ loc' = loc
          ELSE IF args.datatype = "run" /\ args.byitem
          THEN ret' = Raise("ValueError") /\ pc' = "done" /\ loc' = loc
          ELSE /\ loc' = [sess_traces |-> Append(loc.sess_traces,
                                                  [first |-> checked.val[1],
                                                   last |-> checked.val[Len(checked.val)]]),
                          i |-> loc.i + 1]
               /\ pc' = pc /\ ret' = ret
    /\ UNCHANGED <<op, args>>

\* lines 500-515 and the saving of the results
AcStats ==
    /\ op = "run_autocorr" /\ pc = "blocks"
    /\ loc.i > Len(args.all_segs)
    /\ ret' = Return(None)
    /\ pc' = "done"
    /\ UNCHANGED <<op, args, loc>>

AutocorrNext == AcBlock \/ AcStats

SpecAutocorr == AcInit /\ [][AutocorrNext]_vars

AcFinished == op = "run_autocorr" /\ pc = "done"

\* a gap of more than 1 between two consecutive segment numbers of a block
BlockHasGap(segs) ==
    \E a \in Range(segs), b \in Range(segs) :
        b - a > 1 /\ \A c \in Range(segs) : ~(a < c /\ c < b)

\* running data needs autocorrpar.byitem to be False (lines 490-492)
AcItemsAllowed == ~(args.datatype = "run" /\ args.byitem)

\* C28: run_autocorr's contiguity check accepts every non-empty stimulus
\* block whose sorted segment numbers are contiguous, including a block made
\* of a single segment, and fails with the NotImplementedError-kind error
\* for every block containing a gap greater than 1 between consecutive
\* segment numbers.
C28_ContiguousBlocksAccepted ==
    (AcFinished /\ AcItemsAllowed) =>
        IF \E k \in DOMAIN args.all_segs : BlockHasGap(args.all_segs[k])
        THEN ret = Raise("NotImplementedError")
        ELSE ret = Return(None) /\
             Len(loc.sess_traces) = Cardinality({k \in DOMAIN args.all_segs : Len(args.all_segs[k]) > 0})

\* the check does as stated when no block is made of a single segment
AcBlocksOfSeveralSegments ==
    (AcFinished /\ AcItemsAllowed /\ \A k \in DOMAIN args.all_segs : Len(args.all_segs[k]) # 1) =>
        IF \E k \in DOMAIN args.all_segs : BlockHasGap(args.all_segs[k])
        THEN ret = Raise("NotImplementedError")
        ELSE ret = Return(None)

\* a block of a single segment stops the run with the error of max()
AcSingleSegmentFails ==
    (AcFinished /\ AcItemsAllowed /\ Len(args.all_segs) >= 1 /\ Len(args.all_segs[1]) = 1) =>
        ret = Raise("ValueError")

====
